---- MODULE Spec2Model ----
(***************************************************************************)
(* Model of the gesture FSMs of my_libinput:                               *)
(*   - the edge-motion FSM of src/evdev-mt-touchpad-edge-motion.c, in its  *)
(*     timer-driven variant (lines 734-1063) and its first, frame-driven   *)
(*     variant (lines 24-430);                                             *)
(*   - the four-finger swipe FSM (lines 1088-1484).                        *)
(* Times are microseconds, as in libinput.  Distances are nanometres       *)
(* (1 mm = 10^6 nm), so EDGE_MOTION_CONFIG_SPEED_MM_S * dt_us / 10^6 mm is *)
(* the integer SPEED * dt_us nm.  Swipe deltas are tenths of a normalized  *)
(* unit and the swipe accumulator counts 1/2600 units, which makes the     *)
(* speed multiplier and the products exact for axis-aligned deltas.        *)
(***************************************************************************)
EXTENDS Integers, Sequences, FiniteSets, TLC

VARIABLES
    now,                \* the monotonic clock (us)
    edge_motion_fsm,    \* static struct edge_motion_fsm fsm
    edge_timer,         \* fsm.timer: its expiry time, 0 when not armed
    edge_queued,        \* an expiry of fsm.timer queued before it was cancelled
    drag_log_file,      \* first variant: the log file is open
    edge_last,          \* what the last edge-motion step did (history)
    edge_episode,       \* time at which edge_entry was last entered (history)
    edge_ticks,         \* the last two motion events of the timer (history)
    edge_travel,        \* distance injected since edge_entry was entered (history)
    swipe_fsm,          \* static struct swipe_fsm fsm
    swipe_timer,        \* swipe fsm.timer: its expiry time, 0 when not armed
    swipe_last,         \* what the last swipe step did (history)
    swipe_hist,         \* history of the swipe gesture since lock-in / frames
    pt_touches,         \* per-touch variant: t->edge_motion of every touch
    pt_last             \* per-touch variant: what the last step did (history)

edge_vars == <<edge_motion_fsm, edge_timer, edge_queued, drag_log_file,
               edge_last, edge_episode, edge_ticks, edge_travel>>
swipe_vars == <<swipe_fsm, swipe_timer, swipe_last, swipe_hist>>
touch_vars == <<pt_touches, pt_last>>
vars == <<now, edge_motion_fsm, edge_timer, edge_queued, drag_log_file,
          edge_last, edge_episode, edge_ticks, edge_travel, swipe_fsm,
          swipe_timer, swipe_last, swipe_hist, pt_touches, pt_last>>

(***************************************************************************)
(* Bounds of the model.                                                    *)
(***************************************************************************)
\* the clock takes the values k * 8000 + j * SmallStepUs, k <= MaxTicks, j <= 1
MaxTicks == 2
\* a step shorter than the 25 us that the 0.001 mm epsilon amounts to
SmallStepUs == 20
\* touches of one frame
MaxTouches == 2

Abs(x) == IF x < 0 THEN -x ELSE x

Sign(x) == IF x < 0 THEN -1 ELSE IF x > 0 THEN 1 ELSE 0

RECURSIVE ISqrtIn(_, _, _)
\* bisection: lo * lo <= n < hi * hi
ISqrtIn(n, lo, hi) ==
    IF hi - lo <= 1 THEN lo
    ELSE LET mid == (lo + hi) \div 2
         IN  IF mid * mid <= n THEN ISqrtIn(n, mid, hi) ELSE ISqrtIn(n, lo, mid)

\* floor of the square root: sqrt() on the model's fixed-point numbers
\* (46340 is the largest integer whose square fits 32 bits)
ISqrt(n) == ISqrtIn(n, 0, IF n < 46340 THEN n + 1 ELSE 46340)

(***************************************************************************)
(* Edge motion, timer-driven variant.                                      *)
(***************************************************************************)
STATE_IDLE == "STATE_IDLE"
STATE_DRAG_ACTIVE_CENTERED == "STATE_DRAG_ACTIVE_CENTERED"
STATE_DRAG_EDGE_ENTRY == "STATE_DRAG_EDGE_ENTRY"
STATE_DRAG_EDGE_CONTINUOUS == "STATE_DRAG_EDGE_CONTINUOUS"
STATE_DRAG_EDGE_EXIT == "STATE_DRAG_EDGE_EXIT"

edge_motion_state ==
    {STATE_IDLE, STATE_DRAG_ACTIVE_CENTERED, STATE_DRAG_EDGE_ENTRY,
     STATE_DRAG_EDGE_CONTINUOUS, STATE_DRAG_EDGE_EXIT}

EDGE_NONE == {}
EDGE_LEFT == "LEFT"
EDGE_RIGHT == "RIGHT"
EDGE_TOP == "TOP"
EDGE_BOTTOM == "BOTTOM"

EDGE_MOTION_CONFIG_SPEED_MM_S == 40
EDGE_MOTION_CONFIG_MIN_INTERVAL_US == 8000
\* dist_mm < 0.001, in nanometres
EDGE_MOTION_EPSILON_NM == 1000

\* the tap states that count as a drag, and two that do not
TapDraggingStates ==
    {"TAP_STATE_1FGTAP_DRAGGING", "TAP_STATE_1FGTAP_DRAGGING_2",
     "TAP_STATE_1FGTAP_DRAGGING_WAIT", "TAP_STATE_1FGTAP_DRAGGING_OR_TAP",
     "TAP_STATE_1FGTAP_DRAGGING_OR_DOUBLETAP"}

TapStates == TapDraggingStates \cup {"TAP_STATE_IDLE", "TAP_STATE_TOUCH"}

\* device geometry: absinfo maximum and the 7 mm threshold in device units
AbsMaximum == 20
ThresholdUnits == 7

EDGE_MOTION_CONFIG_EDGE_THRESHOLD_MM == 7

TouchStates == {"TOUCH_NONE", "TOUCH_HOVERING", "TOUCH_UPDATE"}

\* touch positions: centre, left, right, bottom, the top left corner, and
\* left again but just inside the edge zone
TouchPoints ==
    {<<AbsMaximum \div 2, AbsMaximum \div 2>>, <<0, AbsMaximum \div 2>>,
     <<AbsMaximum, AbsMaximum \div 2>>, <<AbsMaximum \div 2, AbsMaximum>>,
     <<0, 0>>, <<ThresholdUnits - 1, AbsMaximum \div 2>>}

Touches == {[state |-> s, x |-> p[1], y |-> p[2]] : s \in TouchStates, p \in TouchPoints}

\* the touches of one frame, in slot order
FrameTouches ==
    UNION {[1..n -> Touches] : n \in 0..MaxTouches}

\* the timestamps the clock can take
TimePoints ==
    {k * EDGE_MOTION_CONFIG_MIN_INTERVAL_US + j * SmallStepUs :
        k \in 0..MaxTicks, j \in 0..1}

NoMotion == [emitted |-> FALSE]

\* scale of the motion direction vector: 1.0
VecOne == 1000

\* calculate_motion_vector, computed as the code computes it
MotionVectorOf(edge) ==
    LET dx == IF EDGE_LEFT \in edge THEN -1
              ELSE IF EDGE_RIGHT \in edge THEN 1 ELSE 0
        dy == IF EDGE_TOP \in edge THEN -1
              ELSE IF EDGE_BOTTOM \in edge THEN 1 ELSE 0
        mag == ISqrt((dx * dx + dy * dy) * VecOne * VecOne)
    IN  IF mag > 0
        THEN [dx |-> Sign(dx) * ((Abs(dx) * VecOne * VecOne) \div mag),
              dy |-> Sign(dy) * ((Abs(dy) * VecOne * VecOne) \div mag)]
        ELSE [dx |-> 0, dy |-> 0]

\* the vectors of all edge sets, computed once
MotionVectors ==
    [edge \in SUBSET {EDGE_LEFT, EDGE_RIGHT, EDGE_TOP, EDGE_BOTTOM} |->
        MotionVectorOf(edge)]

\* a slip of sign on the horizontal axis
calculate_motion_vector_mirrored(edge) ==
    [dx |-> -MotionVectors[edge].dx, dy |-> MotionVectors[edge].dy]

calculate_motion_vector(edge) == MotionVectors[edge]

detect_touch_edge(t) ==
    (IF t.x < ThresholdUnits THEN {EDGE_LEFT} ELSE {})
    \cup (IF t.x > AbsMaximum - ThresholdUnits THEN {EDGE_RIGHT} ELSE {})
    \cup (IF t.y < ThresholdUnits THEN {EDGE_TOP} ELSE {})
    \cup (IF t.y > AbsMaximum - ThresholdUnits THEN {EDGE_BOTTOM} ELSE {})

\* edge_entry waits in place instead of moving on to edge_active
calculate_next_state_entry_stays(is_dragging, edge, current) ==
    IF ~is_dragging THEN STATE_IDLE
    ELSE IF current \in {STATE_IDLE, STATE_DRAG_ACTIVE_CENTERED,
                         STATE_DRAG_EDGE_EXIT}
         THEN (IF edge # EDGE_NONE THEN STATE_DRAG_EDGE_ENTRY
               ELSE STATE_DRAG_ACTIVE_CENTERED)
    ELSE IF edge = EDGE_NONE THEN STATE_DRAG_EDGE_EXIT
    ELSE IF current = STATE_DRAG_EDGE_ENTRY THEN STATE_DRAG_EDGE_ENTRY
    ELSE STATE_DRAG_EDGE_CONTINUOUS

\* the drag signal is looked at only outside the edge states
calculate_next_state_drag_late(is_dragging, edge, current) ==
    IF current \in {STATE_IDLE, STATE_DRAG_ACTIVE_CENTERED, STATE_DRAG_EDGE_EXIT}
    THEN (IF ~is_dragging THEN STATE_IDLE
          ELSE IF edge # EDGE_NONE THEN STATE_DRAG_EDGE_ENTRY
          ELSE STATE_DRAG_ACTIVE_CENTERED)
    ELSE (IF edge # EDGE_NONE THEN STATE_DRAG_EDGE_CONTINUOUS
          ELSE STATE_DRAG_EDGE_EXIT)

calculate_next_state(is_dragging, edge, current) ==
    IF ~is_dragging THEN STATE_IDLE
    ELSE IF current \in {STATE_IDLE, STATE_DRAG_ACTIVE_CENTERED,
                         STATE_DRAG_EDGE_EXIT}
         THEN (IF edge # EDGE_NONE THEN STATE_DRAG_EDGE_ENTRY
               ELSE STATE_DRAG_ACTIVE_CENTERED)
    ELSE IF current \in {STATE_DRAG_EDGE_ENTRY, STATE_DRAG_EDGE_CONTINUOUS}
         THEN (IF edge # EDGE_NONE THEN STATE_DRAG_EDGE_CONTINUOUS
               ELSE STATE_DRAG_EDGE_EXIT)
    ELSE STATE_IDLE

\* memset(&fsm, 0, sizeof(fsm)); fsm.current_state = STATE_IDLE
EdgeFsmZero ==
    [current_state |-> STATE_IDLE,
     previous_state |-> STATE_IDLE,
     state_entry_time |-> 0,
     last_motion_time |-> 0,
     current_edge |-> EDGE_NONE,
     previous_edge |-> EDGE_NONE,
     motion_dx |-> 0,
     motion_dy |-> 0,
     is_dragging |-> FALSE,
     was_dragging |-> FALSE,
     continuous_motion_count |-> 0,
     tp |-> FALSE]

\* the injection without its guard against micro-movements
inject_accumulated_motion_unguarded(f, time) ==
    IF f.last_motion_time = 0
    THEN [fsm |-> [f EXCEPT !.last_motion_time = time], motion |-> NoMotion]
    ELSE [fsm |-> [f EXCEPT !.last_motion_time = time,
                            !.continuous_motion_count = @ + 1],
          motion |-> [emitted |-> TRUE, time |-> time,
                      x |-> f.motion_dx * EDGE_MOTION_CONFIG_SPEED_MM_S
                                * (time - f.last_motion_time),
                      y |-> f.motion_dy * EDGE_MOTION_CONFIG_SPEED_MM_S
                                * (time - f.last_motion_time),
                      dist |-> EDGE_MOTION_CONFIG_SPEED_MM_S
                                   * (time - f.last_motion_time)]]

\* the injection that drops a displacement only when it is zero
inject_accumulated_motion_nonzero(f, time) ==
    IF f.last_motion_time = 0
    THEN [fsm |-> [f EXCEPT !.last_motion_time = time], motion |-> NoMotion]
    ELSE IF time = f.last_motion_time
    THEN [fsm |-> f, motion |-> NoMotion]
    ELSE [fsm |-> [f EXCEPT !.last_motion_time = time,
                            !.continuous_motion_count = @ + 1],
          motion |-> [emitted |-> TRUE, time |-> time,
                      x |-> f.motion_dx * EDGE_MOTION_CONFIG_SPEED_MM_S
                                * (time - f.last_motion_time),
                      y |-> f.motion_dy * EDGE_MOTION_CONFIG_SPEED_MM_S
                                * (time - f.last_motion_time),
                      dist |-> EDGE_MOTION_CONFIG_SPEED_MM_S
                                   * (time - f.last_motion_time)]]

\* the motion event and the fields inject_accumulated_motion leaves behind
inject_accumulated_motion(f, time) ==
    IF f.last_motion_time = 0
    THEN [fsm |-> [f EXCEPT !.last_motion_time = time], motion |-> NoMotion]
    ELSE LET time_since_last == time - f.last_motion_time
             dist_nm == EDGE_MOTION_CONFIG_SPEED_MM_S * time_since_last
         IN  IF dist_nm < EDGE_MOTION_EPSILON_NM
             THEN [fsm |-> f, motion |-> NoMotion]
             ELSE [fsm |-> [f EXCEPT !.last_motion_time = time,
                                     !.continuous_motion_count = @ + 1],
                   motion |-> [emitted |-> TRUE, time |-> time,
                               x |-> f.motion_dx * dist_nm,
                               y |-> f.motion_dy * dist_nm,
                               dist |-> dist_nm]]

\* libinput_timer_set / libinput_timer_cancel on a timer whose expiry is e
libinput_timer_set(expire) == expire

libinput_timer_cancel == 0

\* the callback forgets to schedule the next tick
tp_edge_motion_handle_timeout_once(f, timer, time) ==
    IF f.current_state # STATE_DRAG_EDGE_ENTRY
       /\ f.current_state # STATE_DRAG_EDGE_CONTINUOUS
    THEN [fsm |-> f, timer |-> timer, motion |-> NoMotion]
    ELSE [fsm |-> inject_accumulated_motion(f, time).fsm,
          timer |-> timer,
          motion |-> inject_accumulated_motion(f, time).motion]

\* the callback without its check of the current state
tp_edge_motion_handle_timeout_unchecked(f, timer, time) ==
    [fsm |-> inject_accumulated_motion(f, time).fsm,
     timer |-> libinput_timer_set(time + EDGE_MOTION_CONFIG_MIN_INTERVAL_US),
     motion |-> inject_accumulated_motion(f, time).motion]

\* the callback schedules the next tick whatever the state is
tp_edge_motion_handle_timeout_rearming(f, timer, time) ==
    IF f.current_state # STATE_DRAG_EDGE_ENTRY
       /\ f.current_state # STATE_DRAG_EDGE_CONTINUOUS
    THEN [fsm |-> f,
          timer |-> libinput_timer_set(time + EDGE_MOTION_CONFIG_MIN_INTERVAL_US),
          motion |-> NoMotion]
    ELSE [fsm |-> inject_accumulated_motion(f, time).fsm,
          timer |-> libinput_timer_set(time + EDGE_MOTION_CONFIG_MIN_INTERVAL_US),
          motion |-> inject_accumulated_motion(f, time).motion]

\* the callback schedules the next tick without the interval
tp_edge_motion_handle_timeout_nowait(f, timer, time) ==
    IF f.current_state # STATE_DRAG_EDGE_ENTRY
       /\ f.current_state # STATE_DRAG_EDGE_CONTINUOUS
    THEN [fsm |-> f, timer |-> timer, motion |-> NoMotion]
    ELSE [fsm |-> inject_accumulated_motion(f, time).fsm,
          timer |-> libinput_timer_set(time + 1),
          motion |-> inject_accumulated_motion(f, time).motion]

\* the callback: the new fsm, the new expiry of the timer, the motion posted
tp_edge_motion_handle_timeout(f, timer, time) ==
    IF f.current_state # STATE_DRAG_EDGE_ENTRY
       /\ f.current_state # STATE_DRAG_EDGE_CONTINUOUS
    THEN [fsm |-> f, timer |-> timer, motion |-> NoMotion]
    ELSE LET r == inject_accumulated_motion(f, time)
         IN  [fsm |-> r.fsm,
              timer |-> libinput_timer_set(time + EDGE_MOTION_CONFIG_MIN_INTERVAL_US),
              motion |-> r.motion]

\* drag_active of tp_edge_motion_handle_drag_state
DragActive(tap_state) == tap_state \in TapDraggingStates

RECURSIVE FirstActiveTouch(_, _)
\* tp_for_each_touch: the index of the first touch in contact, 0 if none
FirstActiveTouch(touches, i) ==
    IF i > Len(touches) THEN 0
    ELSE IF touches[i].state # "TOUCH_NONE" /\ touches[i].state # "TOUCH_HOVERING"
         THEN i
         ELSE FirstActiveTouch(touches, i + 1)

\* detected_edge of the timer-driven variant: only looked for during a drag
DetectedEdge(drag_active, touches) ==
    LET i == FirstActiveTouch(touches, 1)
    IN  IF drag_active /\ i # 0 THEN detect_touch_edge(touches[i]) ELSE EDGE_NONE

\* the distance-based speed model, times 2: 0.5 at 5 mm and more from the
\* edge, 1.0 from 3 mm, 2.0 below 3 mm; dist is in device units
distance_speed_multiplier(dist) ==
    IF dist * EDGE_MOTION_CONFIG_EDGE_THRESHOLD_MM >= 5 * ThresholdUnits THEN 1
    ELSE IF dist * EDGE_MOTION_CONFIG_EDGE_THRESHOLD_MM >= 3 * ThresholdUnits THEN 2
    ELSE 4

\* history: the multipliers that model gives the two axes for the touch of
\* the frame (0 for an axis without a detected edge)
ExpectedMultipliers(drag_active, touches) ==
    LET i == FirstActiveTouch(touches, 1)
        edge == DetectedEdge(drag_active, touches)
    IN  <<IF EDGE_LEFT \in edge THEN distance_speed_multiplier(touches[i].x)
          ELSE IF EDGE_RIGHT \in edge
               THEN distance_speed_multiplier(AbsMaximum - touches[i].x)
          ELSE 0,
          IF EDGE_TOP \in edge THEN distance_speed_multiplier(touches[i].y)
          ELSE IF EDGE_BOTTOM \in edge
               THEN distance_speed_multiplier(AbsMaximum - touches[i].y)
          ELSE 0>>

\* history: the last two motion events of the timer, oldest first
PushTick(ticks, tick) ==
    IF Len(ticks) < 2 THEN Append(ticks, tick) ELSE <<ticks[2], tick>>

\* whether a cancel leaves an expiry queued: the timer was armed and due
\* libinput_timer_destroy: whether an expiry can still be delivered afterwards;
\* the expiry of a timer destroyed while armed may or may not be dropped
libinput_timer_destroy(timer) == IF timer # 0 THEN BOOLEAN ELSE {FALSE}

CancelQueues(timer, time) == timer # 0 /\ time >= timer

\* what a frame's tap state and touches amount to: (drag_active,
\* detected_edge), and for the history the multipliers of the speed model
FrameInputs ==
    {<<DragActive(tap_state), DetectedEdge(DragActive(tap_state), touches),
       ExpectedMultipliers(DragActive(tap_state), touches)>> :
        tap_state \in TapStates, touches \in FrameTouches}

\* a variant that gives the pending tick another interval on every frame
continuous_timer_pushed(timer) ==
    IF timer # 0 THEN libinput_timer_set(timer + EDGE_MOTION_CONFIG_MIN_INTERVAL_US)
    ELSE timer

\* case STATE_DRAG_EDGE_CONTINUOUS: the timer is left as it is
continuous_timer(timer) == timer

\* the whole of tp_edge_motion_handle_drag_state on (fsm, timer), once
\* drag_active and detected_edge have been read off the frame
handle_drag_state(f0, timer, drag_active, detected_edge, time) ==
    LET f1 == IF f0.tp THEN f0 ELSE [EdgeFsmZero EXCEPT !.tp = TRUE]
        next_state == calculate_next_state(drag_active, detected_edge,
                                           f1.current_state)
        f2 == [f1 EXCEPT !.previous_state = f1.current_state,
                         !.current_edge = detected_edge,
                         !.is_dragging = drag_active]
        f3 == IF next_state # f2.current_state
              THEN [f2 EXCEPT !.current_state = next_state,
                              !.state_entry_time = time,
                              !.continuous_motion_count =
                                  IF next_state # STATE_DRAG_EDGE_CONTINUOUS
                                  THEN 0 ELSE @]
              ELSE f2
        vec == calculate_motion_vector(f3.current_edge)
    IN  IF f3.current_state \in {STATE_IDLE, STATE_DRAG_ACTIVE_CENTERED,
                                 STATE_DRAG_EDGE_EXIT}
        THEN [fsm |-> f3, timer |-> libinput_timer_cancel, motion |-> NoMotion,
              queued |-> CancelQueues(timer, time)]
        ELSE IF f3.current_state = STATE_DRAG_EDGE_ENTRY
        THEN LET r == tp_edge_motion_handle_timeout(
                          [f3 EXCEPT !.motion_dx = vec.dx, !.motion_dy = vec.dy,
                                     !.last_motion_time = time],
                          timer, time)
             IN  [fsm |-> r.fsm, timer |-> r.timer, motion |-> r.motion,
                  queued |-> FALSE]
        ELSE [fsm |-> [f3 EXCEPT !.motion_dx = vec.dx, !.motion_dy = vec.dy],
              timer |-> continuous_timer(timer), motion |-> NoMotion,
              queued |-> FALSE]

\* the int tp_edge_motion_handle_drag_state returns
DragStateResult(f) ==
    IF f.current_state # STATE_DRAG_ACTIVE_CENTERED /\ f.current_state # STATE_IDLE
    THEN 1 ELSE 0

EdgeInit ==
    /\ edge_motion_fsm = EdgeFsmZero
    /\ edge_timer = 0
    /\ edge_queued = FALSE
    /\ drag_log_file = FALSE
    /\ edge_last = [op |-> "init", motion |-> NoMotion, prev |-> STATE_IDLE,
                    mult |-> <<0, 0>>]
    /\ edge_ticks = <<>>
    /\ edge_travel = [sum |-> 0, last |-> 0]
    /\ edge_episode = 0

\* time passes
Advance ==
    /\ \E t \in TimePoints : t > now /\ now' = t
    /\ UNCHANGED <<edge_vars, swipe_vars, touch_vars>>

\* one call of tp_edge_motion_handle_drag_state(tp, now)
EdgeFrameStep ==
    \E inp \in FrameInputs :
        \E r \in {handle_drag_state(edge_motion_fsm, edge_timer, inp[1],
                                    inp[2], now)} :
            /\ edge_motion_fsm' = r.fsm
            /\ edge_timer' = r.timer
            /\ edge_queued' = (edge_queued \/ r.queued)
            /\ edge_last' = [op |-> "frame", motion |-> r.motion,
                             prev |-> edge_motion_fsm.current_state,
                             drag |-> inp[1], edge |-> inp[2],
                             ret |-> DragStateResult(r.fsm),
                             mult |-> inp[3],
                             at |-> now,
                             repeat |-> /\ edge_last.op = "frame"
                                        /\ edge_last.at = now
                                        /\ edge_last.drag = inp[1]
                                        /\ edge_last.edge = inp[2]]
            /\ edge_episode' =
                   IF r.fsm.current_state = STATE_DRAG_EDGE_ENTRY
                      /\ edge_motion_fsm.current_state # STATE_DRAG_EDGE_ENTRY
                   THEN now ELSE edge_episode
            /\ UNCHANGED <<now, edge_ticks, drag_log_file, swipe_vars, touch_vars>>

EdgeFrame ==
    /\ EdgeFrameStep
    /\ UNCHANGED edge_travel

\* history: the motion events of the timer, with the time they cover and
\* the multipliers of the speed model for the touch of the last frame
TicksAfter(motion) ==
    IF motion.emitted
    THEN PushTick(edge_ticks,
                  [dt |-> now - edge_motion_fsm.last_motion_time,
                   x |-> motion.x, y |-> motion.y, mult |-> edge_last.mult])
    ELSE edge_ticks

\* the armed timer expires: libinput disarms it and calls the callback
EdgeTimeoutStep ==
    /\ edge_timer # 0
    /\ now >= edge_timer
    /\ \E r \in {tp_edge_motion_handle_timeout(edge_motion_fsm, 0, now)} :
           /\ edge_motion_fsm' = r.fsm
           /\ edge_timer' = r.timer
           /\ edge_last' = [op |-> "timeout", motion |-> r.motion,
                         prev |-> edge_motion_fsm.current_state,
                         mult |-> edge_last.mult]
    /\ UNCHANGED <<now, edge_queued, drag_log_file, edge_episode, swipe_vars, touch_vars>>

EdgeTimeout ==
    /\ EdgeTimeoutStep
    /\ UNCHANGED <<edge_ticks, edge_travel>>

\* the timer callback, with the motion events it injects kept in edge_ticks
EdgeTimeoutRecorded ==
    /\ EdgeTimeoutStep
    /\ edge_ticks' = TicksAfter(edge_last'.motion)
    /\ UNCHANGED edge_travel

\* an expiry that was queued when the timer was cancelled is delivered
EdgeStaleStep ==
    /\ edge_queued
    /\ \E r \in {tp_edge_motion_handle_timeout(edge_motion_fsm, edge_timer, now)} :
           /\ edge_motion_fsm' = r.fsm
           /\ edge_timer' = r.timer
           /\ edge_last' = [op |-> "stale", motion |-> r.motion,
                         prev |-> edge_motion_fsm.current_state,
                         mult |-> edge_last.mult]
    /\ edge_queued' = FALSE
    /\ UNCHANGED <<now, edge_ticks, drag_log_file, edge_episode, swipe_vars, touch_vars>>

EdgeStaleTimeout ==
    /\ EdgeStaleStep
    /\ UNCHANGED edge_travel

\* tp_edge_motion_cleanup
EdgeCleanup ==
    /\ edge_motion_fsm' = EdgeFsmZero
    /\ edge_timer' = 0
    /\ edge_queued' \in libinput_timer_destroy(edge_timer)
    /\ edge_last' = [op |-> "cleanup", motion |-> NoMotion,
                     prev |-> edge_motion_fsm.current_state,
                     mult |-> <<0, 0>>,
                     armed |-> edge_timer # 0, cancelled |-> FALSE]
    /\ UNCHANGED <<now, edge_ticks, edge_travel, drag_log_file, edge_episode, swipe_vars, touch_vars>>

\* the swipe FSM after construction (its fields are defined further down)
SwipeStart ==
    /\ swipe_fsm =
           [state |-> "SWIPE_STATE_IDLE", locked_direction |-> "SWIPE_DIR_NONE",
            last_event_time |-> 0, last_key_time |-> 0, state_enter_time |-> 0,
            consecutive_count |-> 0, candidate_direction |-> "SWIPE_DIR_NONE",
            accumulated_delta |-> 0, keys_sent |-> 0, timer_active |-> FALSE,
            tp |-> FALSE]
    /\ swipe_timer = 0
    /\ swipe_last = [op |-> "init", keys |-> <<>>, checked |-> FALSE,
                     before |-> [state |-> "SWIPE_STATE_IDLE",
                                 locked_direction |-> "SWIPE_DIR_NONE",
                                 accumulated_delta |-> 0,
                                 candidate_direction |-> "SWIPE_DIR_NONE",
                                 consecutive_count |-> 0,
                                 last_event_time |-> 0,
                                 timer |-> 0],
                     dir |-> "SWIPE_DIR_NONE", at_check |-> 0,
                     delta |-> <<0, 0>>, contrib |-> 0, time |-> 0]
    /\ swipe_hist = [recent |-> <<>>, sum |-> 0, pairs |-> 0, biggest |-> 0,
                     run |-> 0, run_pairs |-> 0]

(***************************************************************************)
(* The per-touch edge-motion variant (unnamed/part_000): each touch has    *)
(* its own state, stored edges, start timer and tick timer.                *)
(***************************************************************************)
EDGE_MOTION_EVENT_TOUCH == "EDGE_MOTION_EVENT_TOUCH"
EDGE_MOTION_EVENT_MOTION == "EDGE_MOTION_EVENT_MOTION"
EDGE_MOTION_EVENT_RELEASE == "EDGE_MOTION_EVENT_RELEASE"
EDGE_MOTION_EVENT_TIMEOUT_START == "EDGE_MOTION_EVENT_TIMEOUT_START"
EDGE_MOTION_EVENT_TIMEOUT_TICK == "EDGE_MOTION_EVENT_TIMEOUT_TICK"
EDGE_MOTION_EVENT_POSTED == "EDGE_MOTION_EVENT_POSTED"

EDGE_MOTION_TOUCH_STATE_NONE == "EDGE_MOTION_TOUCH_STATE_NONE"
EDGE_MOTION_TOUCH_STATE_DRAGGING == "EDGE_MOTION_TOUCH_STATE_DRAGGING"
EDGE_MOTION_TOUCH_STATE_EDGE_NEW == "EDGE_MOTION_TOUCH_STATE_EDGE_NEW"
EDGE_MOTION_TOUCH_STATE_EDGE_ACTIVE == "EDGE_MOTION_TOUCH_STATE_EDGE_ACTIVE"

TOUCH_NONE == "TOUCH_NONE"
TOUCH_HOVERING == "TOUCH_HOVERING"
TOUCH_BEGIN == "TOUCH_BEGIN"
TOUCH_UPDATE == "TOUCH_UPDATE"
TOUCH_MAYBE_END == "TOUCH_MAYBE_END"
TOUCH_END == "TOUCH_END"

\* ms2us(150)
DEFAULT_EDGE_MOTION_DELAY == 150000
\* ms2us(16)
EDGE_MOTION_INTERVAL == 16000
\* DEFAULT_EDGE_MOTION_SPEED * (EDGE_MOTION_INTERVAL / 1000000.0), in
\* millionths of a normalized unit: 0.5 * 0.016 = 0.008
SpeedPerFrame == 8000

\* the touches of the touchpad
NumTouchSlots == 2
TouchSlots == 1..NumTouchSlots

\* DEFAULT_EDGE_MOTION_THRESHOLD, tp->scroll.right_edge and
\* tp->scroll.bottom_edge of the device, in device units
EdgeMotionThreshold == 2
ScrollRightEdge == 6
ScrollBottomEdge == 4

\* the positions of a touch: in the top left corner, in the centre, beyond
\* the right edge
PerTouchPoints ==
    {<<0, 0>>, <<EdgeMotionThreshold, EdgeMotionThreshold>>,
     <<ScrollRightEdge + EdgeMotionThreshold + 1, EdgeMotionThreshold>>}

tp_touch_get_edge_motion_edges(point) ==
    (IF point[1] > ScrollRightEdge + EdgeMotionThreshold
     THEN {EDGE_RIGHT} ELSE {})
    \cup (IF point[2] > ScrollBottomEdge + EdgeMotionThreshold
          THEN {EDGE_BOTTOM} ELSE {})
    \cup (IF point[1] < EdgeMotionThreshold THEN {EDGE_LEFT} ELSE {})
    \cup (IF point[2] < EdgeMotionThreshold THEN {EDGE_TOP} ELSE {})

\* a variant that takes every touch for a tap-and-drag
tp_touch_is_tap_dragging_always(t) == TRUE

\* the placeholder of the source
tp_touch_is_tap_dragging(t) == FALSE

\* t->edge_motion after tp_edge_motion_init
EdgeMotionZero ==
    [state |-> EDGE_MOTION_TOUCH_STATE_NONE, edges |-> EDGE_NONE,
     start_timer |-> 0, tick_timer |-> 0]

\* a variant that leaves the start timer armed
tp_edge_motion_set_state_lax(t, point, state, time) ==
    [state |-> state,
     edges |-> IF state \in {EDGE_MOTION_TOUCH_STATE_NONE,
                             EDGE_MOTION_TOUCH_STATE_DRAGGING}
               THEN EDGE_NONE
               ELSE IF state = EDGE_MOTION_TOUCH_STATE_EDGE_NEW
               THEN tp_touch_get_edge_motion_edges(point)
               ELSE t.edges,
     start_timer |-> IF state = EDGE_MOTION_TOUCH_STATE_EDGE_NEW
                     THEN libinput_timer_set(time + DEFAULT_EDGE_MOTION_DELAY)
                     ELSE t.start_timer,
     tick_timer |-> IF state = EDGE_MOTION_TOUCH_STATE_EDGE_ACTIVE
                    THEN libinput_timer_set(time + EDGE_MOTION_INTERVAL)
                    ELSE libinput_timer_cancel]

\* t->edge_motion after tp_edge_motion_set_state: both timers cancelled,
\* then the state's own edges and timer
tp_edge_motion_set_state(t, point, state, time) ==
    [state |-> state,
     edges |-> IF state \in {EDGE_MOTION_TOUCH_STATE_NONE,
                             EDGE_MOTION_TOUCH_STATE_DRAGGING}
               THEN EDGE_NONE
               ELSE IF state = EDGE_MOTION_TOUCH_STATE_EDGE_NEW
               THEN tp_touch_get_edge_motion_edges(point)
               ELSE t.edges,
     start_timer |-> IF state = EDGE_MOTION_TOUCH_STATE_EDGE_NEW
                     THEN libinput_timer_set(time + DEFAULT_EDGE_MOTION_DELAY)
                     ELSE libinput_timer_cancel,
     tick_timer |-> IF state = EDGE_MOTION_TOUCH_STATE_EDGE_ACTIVE
                    THEN libinput_timer_set(time + EDGE_MOTION_INTERVAL)
                    ELSE libinput_timer_cancel]

tp_edge_motion_handle_none(t, point, event, dragging, time) ==
    IF event = EDGE_MOTION_EVENT_TOUCH /\ dragging
    THEN tp_edge_motion_set_state(t, point, EDGE_MOTION_TOUCH_STATE_DRAGGING,
                                  time)
    ELSE t

tp_edge_motion_handle_dragging(t, point, event, time) ==
    CASE event = EDGE_MOTION_EVENT_MOTION ->
             IF tp_touch_get_edge_motion_edges(point) # EDGE_NONE
             THEN tp_edge_motion_set_state(
                      t, point, EDGE_MOTION_TOUCH_STATE_EDGE_NEW, time)
             ELSE t
      [] event = EDGE_MOTION_EVENT_RELEASE ->
             tp_edge_motion_set_state(t, point, EDGE_MOTION_TOUCH_STATE_NONE,
                                      time)
      [] OTHER -> t

\* the edges stored by a motion event in an edge state, and dragging again
\* once there are none
EdgeMotionUpdateEdges(t, point, time) ==
    LET u == [t EXCEPT !.edges = tp_touch_get_edge_motion_edges(point)]
    IN  IF u.edges = EDGE_NONE
        THEN tp_edge_motion_set_state(u, point,
                                      EDGE_MOTION_TOUCH_STATE_DRAGGING, time)
        ELSE u

tp_edge_motion_handle_edge_new(t, point, event, time) ==
    CASE event = EDGE_MOTION_EVENT_MOTION -> EdgeMotionUpdateEdges(t, point, time)
      [] event = EDGE_MOTION_EVENT_RELEASE ->
             tp_edge_motion_set_state(t, point, EDGE_MOTION_TOUCH_STATE_NONE,
                                      time)
      [] event = EDGE_MOTION_EVENT_TIMEOUT_START ->
             tp_edge_motion_set_state(
                 t, point, EDGE_MOTION_TOUCH_STATE_EDGE_ACTIVE, time)
      [] OTHER -> t

tp_edge_motion_handle_edge_active(t, point, event, time) ==
    CASE event = EDGE_MOTION_EVENT_MOTION -> EdgeMotionUpdateEdges(t, point, time)
      [] event = EDGE_MOTION_EVENT_RELEASE ->
             tp_edge_motion_set_state(t, point, EDGE_MOTION_TOUCH_STATE_NONE,
                                      time)
      [] event = EDGE_MOTION_EVENT_TIMEOUT_TICK ->
             [t EXCEPT !.tick_timer =
                           libinput_timer_set(time + EDGE_MOTION_INTERVAL)]
      [] OTHER -> t

\* t->edge_motion after tp_edge_motion_handle_event; dragging is what
\* tp_touch_is_tap_dragging returns for the touch
tp_edge_motion_handle_event(t, point, event, dragging, time) ==
    CASE t.state = EDGE_MOTION_TOUCH_STATE_NONE ->
             tp_edge_motion_handle_none(t, point, event, dragging, time)
      [] t.state = EDGE_MOTION_TOUCH_STATE_DRAGGING ->
             tp_edge_motion_handle_dragging(t, point, event, time)
      [] t.state = EDGE_MOTION_TOUCH_STATE_EDGE_NEW ->
             tp_edge_motion_handle_edge_new(t, point, event, time)
      [] OTHER -> tp_edge_motion_handle_edge_active(t, point, event, time)

\* what a frame holds for one touch: t->dirty, t->state, t->point and the
\* tap-and-drag predicate; the point is read on a motion event only and the
\* predicate on a touch event only
TouchFrames(dragging) ==
    [dirty : {TRUE}, state : {TOUCH_BEGIN}, point : {<<0, 0>>},
     dragging : dragging]
    \cup [dirty : {TRUE}, state : {TOUCH_UPDATE}, point : PerTouchPoints,
          dragging : {FALSE}]
    \cup [dirty : {TRUE},
          state : {TOUCH_NONE, TOUCH_HOVERING, TOUCH_MAYBE_END, TOUCH_END},
          point : {<<0, 0>>}, dragging : {FALSE}]
    \cup [dirty : {FALSE}, state : {TOUCH_UPDATE}, point : {<<0, 0>>},
          dragging : {FALSE}]

\* the event tp_edge_motion_handle_state sends for a touch, "none" if it
\* sends none
EventOfTouch(inp) ==
    IF ~inp.dirty THEN "none"
    ELSE CASE inp.state = TOUCH_BEGIN -> EDGE_MOTION_EVENT_TOUCH
           [] inp.state = TOUCH_UPDATE -> EDGE_MOTION_EVENT_MOTION
           [] inp.state \in {TOUCH_MAYBE_END, TOUCH_END} ->
                  EDGE_MOTION_EVENT_RELEASE
           [] OTHER -> "none"

\* the motion tp_edge_motion_post_events computes for the stored edges, in
\* millionths; the diagonal is scaled by 1 / sqrt(2)
EdgeMotionOf(edges) ==
    LET x == (IF EDGE_RIGHT \in edges THEN SpeedPerFrame ELSE 0)
             - (IF EDGE_LEFT \in edges THEN SpeedPerFrame ELSE 0)
        y == (IF EDGE_BOTTOM \in edges THEN SpeedPerFrame ELSE 0)
             - (IF EDGE_TOP \in edges THEN SpeedPerFrame ELSE 0)
        diagonal == /\ edges \cap {EDGE_LEFT, EDGE_RIGHT} # {}
                    /\ edges \cap {EDGE_TOP, EDGE_BOTTOM} # {}
    IN  IF diagonal
        THEN [x |-> Sign(x) * ((Abs(x) * 7071) \div 10000),
              y |-> Sign(y) * ((Abs(y) * 7071) \div 10000)]
        ELSE [x |-> x, y |-> y]

\* the edge-motion states of the touches
TouchStatesNow == [i \in TouchSlots |-> pt_touches[i].state]

TouchInit ==
    /\ pt_touches = [i \in TouchSlots |-> EdgeMotionZero]
    /\ pt_last = [op |-> "init", touch |-> 0,
                  events |-> [i \in TouchSlots |-> "none"],
                  before |-> [i \in TouchSlots |-> EDGE_MOTION_TOUCH_STATE_NONE],
                  motions |-> {}]

\* the timestamps of the touch frames: every 50 ms
TouchStepUs == 50000
MaxTouchSteps == 5
TouchTimePoints == {k * TouchStepUs : k \in 0..MaxTouchSteps}

AdvanceTouch ==
    /\ pt_last.op # "remove"
    /\ \E t \in TouchTimePoints : t > now /\ now' = t
    /\ UNCHANGED <<edge_vars, swipe_vars, touch_vars>>

\* tp_edge_motion_handle_state on a frame in which the tap-and-drag
\* predicate takes its values in dragging
TouchFrameOf(dragging) ==
    /\ pt_last.op # "remove"
    /\ \E inp \in [TouchSlots -> TouchFrames(dragging)] :
           /\ pt_touches' =
                  [i \in TouchSlots |->
                      IF EventOfTouch(inp[i]) = "none" THEN pt_touches[i]
                      ELSE tp_edge_motion_handle_event(
                               pt_touches[i], inp[i].point,
                               EventOfTouch(inp[i]), inp[i].dragging, now)]
           /\ pt_last' = [op |-> "frame", touch |-> 0,
                          events |-> [i \in TouchSlots |-> EventOfTouch(inp[i])],
                          before |-> TouchStatesNow, motions |-> {}]
    /\ UNCHANGED <<now, edge_vars, swipe_vars>>

\* a frame with the predicate as the source has it
TouchFrame == TouchFrameOf({tp_touch_is_tap_dragging(0)})

\* a frame with the predicate taken as an input
TouchFrameDragging == TouchFrameOf(BOOLEAN)

\* the start timer of a touch expires: tp_edge_motion_handle_timeout_start
TouchTimeoutStart ==
    /\ pt_last.op # "remove"
    /\ \E i \in TouchSlots :
           /\ pt_touches[i].start_timer # 0
           /\ now >= pt_touches[i].start_timer
           /\ pt_touches' =
                  [pt_touches EXCEPT ![i] =
                      tp_edge_motion_handle_event(
                          [@ EXCEPT !.start_timer = 0], <<0, 0>>,
                          EDGE_MOTION_EVENT_TIMEOUT_START, FALSE, now)]
           /\ pt_last' = [op |-> "timeout_start", touch |-> i,
                          events |-> [j \in TouchSlots |->
                                         IF j = i
                                         THEN EDGE_MOTION_EVENT_TIMEOUT_START
                                         ELSE "none"],
                          before |-> TouchStatesNow, motions |-> {}]
    /\ UNCHANGED <<now, edge_vars, swipe_vars>>

\* the tick timer of a touch expires: tp_edge_motion_handle_timeout_tick
TouchTimeoutTick ==
    /\ pt_last.op # "remove"
    /\ \E i \in TouchSlots :
           /\ pt_touches[i].tick_timer # 0
           /\ now >= pt_touches[i].tick_timer
           /\ pt_touches' =
                  [pt_touches EXCEPT ![i] =
                      tp_edge_motion_handle_event(
                          [@ EXCEPT !.tick_timer = 0], <<0, 0>>,
                          EDGE_MOTION_EVENT_TIMEOUT_TICK, FALSE, now)]
           /\ pt_last' = [op |-> "timeout_tick", touch |-> i,
                          events |-> [j \in TouchSlots |->
                                         IF j = i
                                         THEN EDGE_MOTION_EVENT_TIMEOUT_TICK
                                         ELSE "none"],
                          before |-> TouchStatesNow, motions |-> {}]
    /\ UNCHANGED <<now, edge_vars, swipe_vars>>

\* the touches tp_edge_motion_post_events computes a motion for
TouchesPosting ==
    {i \in TouchSlots :
        /\ pt_touches[i].state = EDGE_MOTION_TOUCH_STATE_EDGE_ACTIVE
        /\ pt_touches[i].edges # EDGE_NONE}

\* tp_edge_motion_post_events: a motion is computed for every touch in
\* EDGE_ACTIVE with stored edges, which then gets the POSTED event
TouchPostEvents ==
    /\ pt_last.op # "remove"
    /\ pt_touches' =
           [i \in TouchSlots |->
               IF i \in TouchesPosting
               THEN tp_edge_motion_handle_event(pt_touches[i], <<0, 0>>,
                                                EDGE_MOTION_EVENT_POSTED,
                                                FALSE, now)
               ELSE pt_touches[i]]
    /\ pt_last' = [op |-> "post", touch |-> 0,
                   events |-> [i \in TouchSlots |->
                                  IF i \in TouchesPosting
                                  THEN EDGE_MOTION_EVENT_POSTED ELSE "none"],
                   before |-> TouchStatesNow,
                   motions |-> {[touch |-> i,
                                 motion |-> EdgeMotionOf(pt_touches[i].edges)] :
                                   i \in TouchesPosting}]
    /\ UNCHANGED <<now, edge_vars, swipe_vars>>

\* tp_edge_motion_stop_events
TouchStopEvents ==
    /\ pt_last.op # "remove"
    /\ pt_touches' =
           [i \in TouchSlots |->
               IF pt_touches[i].state # EDGE_MOTION_TOUCH_STATE_NONE
               THEN tp_edge_motion_set_state(pt_touches[i], <<0, 0>>,
                                             EDGE_MOTION_TOUCH_STATE_NONE, now)
               ELSE pt_touches[i]]
    /\ pt_last' = [op |-> "stop", touch |-> 0,
                   events |-> [i \in TouchSlots |-> "none"],
                   before |-> TouchStatesNow, motions |-> {}]
    /\ UNCHANGED <<now, edge_vars, swipe_vars>>

\* tp_remove_edge_motion: both timers of every touch are cancelled and
\* destroyed; nothing is called on the touches afterwards
TouchRemove ==
    /\ pt_last.op # "remove"
    /\ pt_touches' =
           [i \in TouchSlots |->
               [pt_touches[i] EXCEPT !.start_timer = libinput_timer_cancel,
                                     !.tick_timer = libinput_timer_cancel]]
    /\ pt_last' = [op |-> "remove", touch |-> 0,
                   events |-> [i \in TouchSlots |-> "none"],
                   before |-> TouchStatesNow, motions |-> {}]
    /\ UNCHANGED <<now, edge_vars, swipe_vars>>

Init ==
    /\ now = 0
    /\ EdgeInit
    /\ SwipeStart
    /\ TouchInit

Next ==
    \/ Advance
    \/ EdgeFrame
    \/ EdgeTimeout
    \/ EdgeStaleTimeout
    \/ EdgeCleanup

\* the timer-driven edge-motion FSM
Spec == Init /\ [][Next]_vars

NextRecorded ==
    \/ Advance
    \/ EdgeFrame
    \/ EdgeTimeoutRecorded
    \/ EdgeCleanup

\* the timer-driven edge-motion FSM with the history of its motion events
SpecRecorded == Init /\ [][NextRecorded]_vars

(***************************************************************************)
(* Edge motion, first variant (lines 24-430): driven by frames alone, the  *)
(* motion is injected by the frame call itself.                            *)
(***************************************************************************)
EDGE_MOTION_CONFIG_SPEED_MM_S_FIRST == 2

PalmStates == {"PALM_NONE", "PALM_TYPING"}

TouchesFirst ==
    {[state |-> s, palm |-> pm, x |-> p[1], y |-> p[2]] :
        s \in TouchStates, pm \in PalmStates, p \in TouchPoints}

FrameTouchesFirst ==
    UNION {[1..n -> TouchesFirst] : n \in 0..MaxTouches}

\* tp->scroll: no scroll edges configured, or all four configured
ScrollEdges ==
    {[left_edge |-> 0, upper_edge |-> 0, right_edge |-> 0, bottom_edge |-> 0],
     [left_edge |-> ThresholdUnits, upper_edge |-> ThresholdUnits,
      right_edge |-> AbsMaximum - ThresholdUnits,
      bottom_edge |-> AbsMaximum - ThresholdUnits]}

detect_touch_edge_first(scroll, t) ==
    (IF scroll.left_edge = 0
     THEN (IF t.x < ThresholdUnits THEN {EDGE_LEFT} ELSE {})
     ELSE (IF t.x < scroll.left_edge THEN {EDGE_LEFT} ELSE {}))
    \cup (IF scroll.upper_edge = 0
          THEN (IF t.y < ThresholdUnits THEN {EDGE_TOP} ELSE {})
          ELSE (IF t.y < scroll.upper_edge THEN {EDGE_TOP} ELSE {}))
    \cup (IF scroll.right_edge = 0
          THEN (IF t.x > AbsMaximum - ThresholdUnits THEN {EDGE_RIGHT} ELSE {})
          ELSE (IF t.x > scroll.right_edge THEN {EDGE_RIGHT} ELSE {}))
    \cup (IF scroll.bottom_edge = 0
          THEN (IF t.y > AbsMaximum - ThresholdUnits THEN {EDGE_BOTTOM} ELSE {})
          ELSE (IF t.y > scroll.bottom_edge THEN {EDGE_BOTTOM} ELSE {}))

calculate_next_state_first(is_dragging, current_edge, current_state) ==
    IF ~is_dragging THEN STATE_IDLE
    ELSE CASE current_state = STATE_IDLE ->
                  (IF current_edge # EDGE_NONE THEN STATE_DRAG_EDGE_ENTRY
                   ELSE STATE_DRAG_ACTIVE_CENTERED)
           [] current_state = STATE_DRAG_ACTIVE_CENTERED ->
                  (IF current_edge # EDGE_NONE THEN STATE_DRAG_EDGE_ENTRY
                   ELSE STATE_DRAG_ACTIVE_CENTERED)
           [] current_state = STATE_DRAG_EDGE_ENTRY ->
                  (IF current_edge # EDGE_NONE THEN STATE_DRAG_EDGE_CONTINUOUS
                   ELSE STATE_DRAG_EDGE_EXIT)
           [] current_state = STATE_DRAG_EDGE_CONTINUOUS ->
                  (IF current_edge # EDGE_NONE THEN STATE_DRAG_EDGE_CONTINUOUS
                   ELSE STATE_DRAG_EDGE_EXIT)
           [] current_state = STATE_DRAG_EDGE_EXIT ->
                  (IF current_edge # EDGE_NONE THEN STATE_DRAG_EDGE_ENTRY
                   ELSE STATE_DRAG_ACTIVE_CENTERED)
           [] OTHER -> STATE_IDLE

inject_continuous_motion(f, time) ==
    LET time_since_last == time - f.last_motion_time
        distance_nm == EDGE_MOTION_CONFIG_SPEED_MM_S_FIRST * time_since_last
    IN  IF f.last_motion_time # 0
           /\ time_since_last < EDGE_MOTION_CONFIG_MIN_INTERVAL_US
        THEN [fsm |-> f, motion |-> NoMotion]
        ELSE [fsm |-> [f EXCEPT !.last_motion_time = time,
                                !.continuous_motion_count = @ + 1],
              motion |-> [emitted |-> TRUE, time |-> time,
                          x |-> f.motion_dx * distance_nm,
                          y |-> f.motion_dy * distance_nm,
                          dist |-> distance_nm]]

RECURSIVE FirstActiveTouchFirst(_, _)
\* the first touch that is in contact and is no palm, 0 if none
FirstActiveTouchFirst(touches, i) ==
    IF i > Len(touches) THEN 0
    ELSE IF touches[i].state = "TOUCH_NONE" \/ touches[i].state = "TOUCH_HOVERING"
            \/ touches[i].palm # "PALM_NONE"
         THEN FirstActiveTouchFirst(touches, i + 1)
         ELSE i

\* detected_edge of the first variant: looked for whether or not a drag is on
DetectedEdgeFirst(scroll, touches) ==
    LET i == FirstActiveTouchFirst(touches, 1)
    IN  IF i # 0 THEN detect_touch_edge_first(scroll, touches[i]) ELSE EDGE_NONE

FrameInputsFirst ==
    {<<DragActive(tap_state), DetectedEdgeFirst(scroll, touches)>> :
        tap_state \in TapStates, scroll \in ScrollEdges,
        touches \in FrameTouchesFirst}

\* the state-specific actions of the first variant
state_actions_first(f, time) ==
    LET vec == calculate_motion_vector(f.current_edge)
    IN  CASE f.current_state = STATE_IDLE ->
                 [fsm |-> [f EXCEPT !.motion_dx = 0, !.motion_dy = 0,
                                    !.continuous_motion_count = 0],
                  motion |-> NoMotion]
          [] f.current_state \in {STATE_DRAG_ACTIVE_CENTERED, STATE_DRAG_EDGE_EXIT} ->
                 [fsm |-> [f EXCEPT !.motion_dx = 0, !.motion_dy = 0],
                  motion |-> NoMotion]
          [] f.current_state = STATE_DRAG_EDGE_ENTRY ->
                 [fsm |-> [f EXCEPT !.motion_dx = vec.dx, !.motion_dy = vec.dy,
                                    !.continuous_motion_count = 0,
                                    !.last_motion_time = 0],
                  motion |-> NoMotion]
          [] OTHER ->
                 inject_continuous_motion(
                     [f EXCEPT !.motion_dx = vec.dx, !.motion_dy = vec.dy], time)

\* tp_edge_motion_handle_drag_state of the first variant, the log file open
handle_drag_state_first(f0, drag_active, detected_edge, time) ==
    LET next_state == calculate_next_state_first(drag_active, detected_edge,
                                                 f0.current_state)
        f1 == [f0 EXCEPT !.previous_state = f0.current_state,
                         !.previous_edge = f0.current_edge,
                         !.was_dragging = f0.is_dragging,
                         !.current_edge = detected_edge,
                         !.is_dragging = drag_active]
    IN  state_actions_first(
            IF next_state # f1.current_state
            THEN [f1 EXCEPT !.current_state = next_state,
                            !.state_entry_time = time,
                            !.continuous_motion_count =
                                IF next_state # STATE_DRAG_EDGE_CONTINUOUS
                                THEN 0 ELSE @]
            ELSE f1,
            time)

\* one call of the first variant's tp_edge_motion_handle_drag_state(tp, now);
\* fopen of the log file may fail, and the call then returns early.  Event
\* timestamps are positive (0 is the "no motion yet" value of last_motion_time).
EdgeFrameFirst ==
    /\ now > 0
    /\ \E inp \in FrameInputsFirst, open_ok \in BOOLEAN :
        IF ~drag_log_file /\ ~open_ok
        THEN /\ edge_last' = [op |-> "nolog", motion |-> NoMotion,
                              prev |-> edge_motion_fsm.current_state,
                              drag |-> inp[1], edge |-> inp[2],
                              ret |-> IF inp[1] THEN 1 ELSE 0]
             /\ UNCHANGED <<now, edge_ticks, edge_travel, edge_motion_fsm, edge_timer, edge_queued,
                            drag_log_file, edge_episode, swipe_vars, touch_vars>>
        ELSE \E r \in {handle_drag_state_first(edge_motion_fsm, inp[1], inp[2],
                                               now)} :
                 /\ edge_motion_fsm' = r.fsm
                 /\ drag_log_file' = TRUE
                 /\ edge_last' = [op |-> "frame", motion |-> r.motion,
                                  prev |-> edge_motion_fsm.current_state,
                                  drag |-> inp[1], edge |-> inp[2],
                                  ret |-> IF inp[1] THEN 1 ELSE 0]
                 /\ edge_episode' =
                        IF r.fsm.current_state = STATE_DRAG_EDGE_ENTRY
                           /\ edge_motion_fsm.current_state # STATE_DRAG_EDGE_ENTRY
                        THEN now ELSE edge_episode
                 /\ UNCHANGED <<now, edge_ticks, edge_travel, edge_timer, edge_queued, swipe_vars, touch_vars>>

\* tp_edge_motion_cleanup of the first variant
EdgeCleanupFirst ==
    /\ edge_motion_fsm' = EdgeFsmZero
    /\ drag_log_file' = FALSE
    /\ edge_last' = [op |-> "cleanup", motion |-> NoMotion,
                     prev |-> edge_motion_fsm.current_state]
    /\ UNCHANGED <<now, edge_ticks, edge_travel, edge_timer, edge_queued, edge_episode, swipe_vars, touch_vars>>

NextFirst ==
    \/ Advance
    \/ EdgeFrameFirst
    \/ EdgeCleanupFirst

\* the first, frame-driven edge-motion FSM
SpecFirst == Init /\ [][NextFirst]_vars

(***************************************************************************)
(* Four-finger swipe FSM (lines 1088-1484).  A delta is <<x, y>> in tenths *)
(* of a normalized unit; accumulated_delta counts 1/2600 units.  The       *)
(* statistics total_movement and movement_count, which the code only       *)
(* writes, are left out.                                                   *)
(***************************************************************************)
SWIPE_STATE_IDLE == "SWIPE_STATE_IDLE"
SWIPE_STATE_DETECTING == "SWIPE_STATE_DETECTING"
SWIPE_STATE_VERTICAL_ACTIVE == "SWIPE_STATE_VERTICAL_ACTIVE"
SWIPE_STATE_HORIZONTAL_ACTIVE == "SWIPE_STATE_HORIZONTAL_ACTIVE"
SWIPE_STATE_COOLDOWN == "SWIPE_STATE_COOLDOWN"

SWIPE_DIR_NONE == "SWIPE_DIR_NONE"
SWIPE_DIR_UP == "SWIPE_DIR_UP"
SWIPE_DIR_DOWN == "SWIPE_DIR_DOWN"
SWIPE_DIR_LEFT == "SWIPE_DIR_LEFT"
SWIPE_DIR_RIGHT == "SWIPE_DIR_RIGHT"

KEY_VOLUMEUP == "KEY_VOLUMEUP"
KEY_VOLUMEDOWN == "KEY_VOLUMEDOWN"
KEY_BRIGHTNESSDOWN == "KEY_BRIGHTNESSDOWN"
KEY_BRIGHTNESSUP == "KEY_BRIGHTNESSUP"

\* one normalized unit, in the units of accumulated_delta
AccOne == 2600

SWIPE_DETECTION_THRESHOLD == 3
SWIPE_BASE_INTERVAL_MS == 80
SWIPE_COOLDOWN_MS == 150
SWIPE_INACTIVITY_TIMEOUT_MS == 200
\* 15.0 and 2.0, in tenths
SWIPE_FAST_THRESHOLD == 150
SWIPE_SLOW_THRESHOLD == 20
\* 8.0 and 10.0, in units of accumulated_delta
SWIPE_VOLUME_THRESHOLD == 20800
SWIPE_BRIGHTNESS_THRESHOLD == 26000

\* the deltas of the frames, in tenths: up by 5, 16 and 32, down by 2,
\* left by 20, right by 3, noise
SwipeDeltas ==
    {<<0, -50>>, <<0, -160>>, <<0, -320>>, <<0, 20>>, <<-200, 0>>, <<30, 0>>,
     <<1, 1>>}

FingerCounts == {3, 4}

\* the deltas of the frames that do not have four fingers
OtherFrameDeltas == {<<0, -320>>, <<30, 0>>}

\* the timestamps of the swipe gesture: every 60 ms
SwipeStepUs == 60000

MaxSwipeSteps == 5

SwipeTimePoints == {k * SwipeStepUs : k \in 0..MaxSwipeSteps}

\* memset(&fsm, 0, sizeof(fsm)); fsm.state = SWIPE_STATE_IDLE
SwipeFsmZero ==
    [state |-> SWIPE_STATE_IDLE,
     locked_direction |-> SWIPE_DIR_NONE,
     last_event_time |-> 0,
     last_key_time |-> 0,
     state_enter_time |-> 0,
     consecutive_count |-> 0,
     candidate_direction |-> SWIPE_DIR_NONE,
     accumulated_delta |-> 0,
     keys_sent |-> 0,
     timer_active |-> FALSE,
     tp |-> FALSE]

\* the classifier without the 1.5 ratio: the larger axis wins
get_primary_direction_larger(delta) ==
    LET abs_x == Abs(delta[1])
        abs_y == Abs(delta[2])
    IN  IF 2 * abs_x < 3 /\ 2 * abs_y < 3 THEN SWIPE_DIR_NONE
        ELSE IF abs_y > abs_x
             THEN (IF delta[2] < 0 THEN SWIPE_DIR_UP ELSE SWIPE_DIR_DOWN)
        ELSE IF abs_x > abs_y
             THEN (IF delta[1] < 0 THEN SWIPE_DIR_LEFT ELSE SWIPE_DIR_RIGHT)
        ELSE SWIPE_DIR_NONE

get_primary_direction(delta) ==
    LET abs_x == Abs(delta[1])
        abs_y == Abs(delta[2])
    IN  IF 2 * abs_x < 3 /\ 2 * abs_y < 3 THEN SWIPE_DIR_NONE
        ELSE IF 2 * abs_y > 3 * abs_x
             THEN (IF delta[2] < 0 THEN SWIPE_DIR_UP ELSE SWIPE_DIR_DOWN)
        ELSE IF 2 * abs_x > 3 * abs_y
             THEN (IF delta[1] < 0 THEN SWIPE_DIR_LEFT ELSE SWIPE_DIR_RIGHT)
        ELSE SWIPE_DIR_NONE

\* delta_magnitude of tp_deal_with_it, in tenths
DeltaMagnitude(delta) == ISqrt(delta[1] * delta[1] + delta[2] * delta[2])

\* a variant without speed weighting: the multiplier is 1.0 throughout
calculate_speed_multiplier_flat(delta_magnitude) == 260

\* the multiplier times 260: 2.0 is 520, 0.5 is 130, and in between
\* 2.0 + (m - 2.0) / 13.0 * (0.5 - 2.0) is (580 - 3 m) / 260 for m in tenths
\* the multiplier with the slow and the fast factor exchanged
calculate_speed_multiplier_exchanged(delta_magnitude) ==
    IF delta_magnitude >= SWIPE_FAST_THRESHOLD THEN 520
    ELSE IF delta_magnitude <= SWIPE_SLOW_THRESHOLD THEN 130
    ELSE 70 + 3 * delta_magnitude

calculate_speed_multiplier(delta_magnitude) ==
    IF delta_magnitude >= SWIPE_FAST_THRESHOLD THEN 130
    ELSE IF delta_magnitude <= SWIPE_SLOW_THRESHOLD THEN 520
    ELSE 580 - 3 * delta_magnitude

\* two keyboard_notify_key calls: press, then release
KeyPair(keycode) ==
    <<[key |-> keycode, state |-> "PRESSED"], [key |-> keycode, state |-> "RELEASED"]>>

\* a variant that puts the fsm in cooldown after each key
send_key_event_cooling(f, keycode, time) ==
    [fsm |-> [f EXCEPT !.keys_sent = @ + 1, !.last_key_time = time,
                       !.state = SWIPE_STATE_COOLDOWN],
     keys |-> KeyPair(keycode)]

send_key_event(f, keycode, time) ==
    [fsm |-> [f EXCEPT !.keys_sent = @ + 1, !.last_key_time = time],
     keys |-> KeyPair(keycode)]

SwipeThreshold(dir) ==
    IF dir \in {SWIPE_DIR_UP, SWIPE_DIR_DOWN}
    THEN SWIPE_VOLUME_THRESHOLD ELSE SWIPE_BRIGHTNESS_THRESHOLD

\* a variant with the keys of each axis exchanged
SwipeKeycode_exchanged(dir) ==
    CASE dir = SWIPE_DIR_UP -> KEY_VOLUMEDOWN
      [] dir = SWIPE_DIR_DOWN -> KEY_VOLUMEUP
      [] dir = SWIPE_DIR_LEFT -> KEY_BRIGHTNESSUP
      [] OTHER -> KEY_BRIGHTNESSDOWN

SwipeKeycode(dir) ==
    CASE dir = SWIPE_DIR_UP -> KEY_VOLUMEUP
      [] dir = SWIPE_DIR_DOWN -> KEY_VOLUMEDOWN
      [] dir = SWIPE_DIR_LEFT -> KEY_BRIGHTNESSDOWN
      [] OTHER -> KEY_BRIGHTNESSUP

\* a variant that takes every whole threshold off the accumulator when it
\* sends a key
process_accumulated_movement_draining(f, time) ==
    IF f.locked_direction = SWIPE_DIR_NONE THEN [fsm |-> f, keys |-> <<>>]
    ELSE LET threshold == SwipeThreshold(f.locked_direction)
             sent == send_key_event(f, SwipeKeycode(f.locked_direction), time)
         IN  IF Abs(f.accumulated_delta) >= threshold
             THEN [fsm |-> [sent.fsm EXCEPT !.accumulated_delta = @ % threshold],
                   keys |-> sent.keys]
             ELSE [fsm |-> f, keys |-> <<>>]

\* a variant that empties the accumulator when it sends a key
process_accumulated_movement_emptying(f, time) ==
    IF f.locked_direction = SWIPE_DIR_NONE THEN [fsm |-> f, keys |-> <<>>]
    ELSE LET threshold == SwipeThreshold(f.locked_direction)
             sent == send_key_event(f, SwipeKeycode(f.locked_direction), time)
         IN  IF Abs(f.accumulated_delta) >= threshold
             THEN [fsm |-> [sent.fsm EXCEPT !.accumulated_delta = 0],
                   keys |-> sent.keys]
             ELSE [fsm |-> f, keys |-> <<>>]

\* the fsm it leaves and the key events it sends
process_accumulated_movement(f, time) ==
    IF f.locked_direction = SWIPE_DIR_NONE THEN [fsm |-> f, keys |-> <<>>]
    ELSE LET threshold == SwipeThreshold(f.locked_direction)
             sent == send_key_event(f, SwipeKeycode(f.locked_direction), time)
         IN  IF Abs(f.accumulated_delta) >= threshold
             THEN [fsm |-> [sent.fsm EXCEPT !.accumulated_delta =
                                                IF @ > 0 THEN @ - threshold
                                                ELSE @ + threshold],
                   keys |-> sent.keys]
             ELSE [fsm |-> f, keys |-> <<>>]

\* a variant whose inactivity reset leaves locked_direction as it was
swipe_timer_handler_keeping(f, time) ==
    IF time - f.last_event_time > SWIPE_INACTIVITY_TIMEOUT_MS * 1000
    THEN [fsm |-> [f EXCEPT !.state = SWIPE_STATE_IDLE,
                            !.consecutive_count = 0,
                            !.accumulated_delta = 0,
                            !.timer_active = FALSE],
          timer |-> libinput_timer_cancel, keys |-> <<>>, checked |-> FALSE]
    ELSE LET active == f.state \in {SWIPE_STATE_VERTICAL_ACTIVE,
                                    SWIPE_STATE_HORIZONTAL_ACTIVE}
             r == IF active THEN process_accumulated_movement(f, time)
                  ELSE [fsm |-> f, keys |-> <<>>]
         IN  [fsm |-> r.fsm,
              timer |-> libinput_timer_set(time + SWIPE_BASE_INTERVAL_MS * 1000),
              keys |-> r.keys, checked |-> active]

\* a variant that does not schedule the next tick
swipe_timer_handler_oneshot(f, time) ==
    IF time - f.last_event_time > SWIPE_INACTIVITY_TIMEOUT_MS * 1000
    THEN [fsm |-> [f EXCEPT !.state = SWIPE_STATE_IDLE,
                            !.locked_direction = SWIPE_DIR_NONE,
                            !.consecutive_count = 0,
                            !.accumulated_delta = 0,
                            !.timer_active = FALSE],
          timer |-> libinput_timer_cancel, keys |-> <<>>, checked |-> FALSE]
    ELSE LET active == f.state \in {SWIPE_STATE_VERTICAL_ACTIVE,
                                    SWIPE_STATE_HORIZONTAL_ACTIVE}
             r == IF active THEN process_accumulated_movement(f, time)
                  ELSE [fsm |-> f, keys |-> <<>>]
         IN  [fsm |-> r.fsm, timer |-> 0, keys |-> r.keys, checked |-> active]

\* the callback, once libinput has disarmed the expired timer
\* the callback only re-arms the timer in the active states
swipe_timer_handler_idling(f, time) ==
    IF time - f.last_event_time > SWIPE_INACTIVITY_TIMEOUT_MS * 1000
    THEN [fsm |-> [f EXCEPT !.state = SWIPE_STATE_IDLE,
                            !.locked_direction = SWIPE_DIR_NONE,
                            !.consecutive_count = 0,
                            !.accumulated_delta = 0,
                            !.timer_active = FALSE],
          timer |-> libinput_timer_cancel, keys |-> <<>>, checked |-> FALSE]
    ELSE IF f.state = SWIPE_STATE_COOLDOWN
    THEN [fsm |-> [f EXCEPT !.state = SWIPE_STATE_IDLE,
                            !.locked_direction = SWIPE_DIR_NONE,
                            !.consecutive_count = 0,
                            !.accumulated_delta = 0,
                            !.timer_active = FALSE],
          timer |-> 0, keys |-> <<>>, checked |-> FALSE]
    ELSE [fsm |-> f,
          timer |-> IF f.timer_active
                    THEN libinput_timer_set(time + SWIPE_BASE_INTERVAL_MS * 1000)
                    ELSE 0,
          keys |-> <<>>, checked |-> FALSE]

\* the inactivity reset leaves timer_active set
swipe_timer_handler_flagged(f, time) ==
    IF time - f.last_event_time > SWIPE_INACTIVITY_TIMEOUT_MS * 1000
    THEN [fsm |-> [f EXCEPT !.state = SWIPE_STATE_IDLE,
                            !.locked_direction = SWIPE_DIR_NONE,
                            !.consecutive_count = 0,
                            !.accumulated_delta = 0],
          timer |-> libinput_timer_cancel, keys |-> <<>>, checked |-> FALSE]
    ELSE LET active == f.state \in {SWIPE_STATE_VERTICAL_ACTIVE,
                                    SWIPE_STATE_HORIZONTAL_ACTIVE}
             r == IF active THEN process_accumulated_movement(f, time)
                  ELSE [fsm |-> f, keys |-> <<>>]
         IN  [fsm |-> r.fsm,
              timer |-> IF r.fsm.timer_active
                        THEN libinput_timer_set(time + SWIPE_BASE_INTERVAL_MS * 1000)
                        ELSE 0,
              keys |-> r.keys, checked |-> active]

\* the inactivity reset leaves locked_direction as it is
swipe_timer_handler_locked(f, time) ==
    IF time - f.last_event_time > SWIPE_INACTIVITY_TIMEOUT_MS * 1000
    THEN [fsm |-> [f EXCEPT !.state = SWIPE_STATE_IDLE,
                            !.consecutive_count = 0,
                            !.accumulated_delta = 0,
                            !.timer_active = FALSE],
          timer |-> libinput_timer_cancel, keys |-> <<>>, checked |-> FALSE]
    ELSE IF f.state = SWIPE_STATE_COOLDOWN
    THEN [fsm |-> [f EXCEPT !.state = SWIPE_STATE_IDLE,
                            !.locked_direction = SWIPE_DIR_NONE,
                            !.consecutive_count = 0,
                            !.accumulated_delta = 0,
                            !.timer_active = FALSE],
          timer |-> 0, keys |-> <<>>, checked |-> FALSE]
    ELSE LET active == f.state \in {SWIPE_STATE_VERTICAL_ACTIVE,
                                    SWIPE_STATE_HORIZONTAL_ACTIVE}
             r == IF active THEN process_accumulated_movement(f, time)
                  ELSE [fsm |-> f, keys |-> <<>>]
         IN  [fsm |-> r.fsm,
              timer |-> IF r.fsm.timer_active
                        THEN libinput_timer_set(time + SWIPE_BASE_INTERVAL_MS * 1000)
                        ELSE 0,
              keys |-> r.keys, checked |-> active]

swipe_timer_handler(f, time) ==
    IF time - f.last_event_time > SWIPE_INACTIVITY_TIMEOUT_MS * 1000
    THEN [fsm |-> [f EXCEPT !.state = SWIPE_STATE_IDLE,
                            !.locked_direction = SWIPE_DIR_NONE,
                            !.consecutive_count = 0,
                            !.accumulated_delta = 0,
                            !.timer_active = FALSE],
          timer |-> libinput_timer_cancel, keys |-> <<>>, checked |-> FALSE]
    ELSE IF f.state = SWIPE_STATE_COOLDOWN
    THEN [fsm |-> [f EXCEPT !.state = SWIPE_STATE_IDLE,
                            !.locked_direction = SWIPE_DIR_NONE,
                            !.consecutive_count = 0,
                            !.accumulated_delta = 0,
                            !.timer_active = FALSE],
          timer |-> 0, keys |-> <<>>, checked |-> FALSE]
    ELSE LET active == f.state \in {SWIPE_STATE_VERTICAL_ACTIVE,
                                    SWIPE_STATE_HORIZONTAL_ACTIVE}
             r == IF active THEN process_accumulated_movement(f, time)
                  ELSE [fsm |-> f, keys |-> <<>>]
         IN  [fsm |-> r.fsm,
              timer |-> IF r.fsm.timer_active
                        THEN libinput_timer_set(time + SWIPE_BASE_INTERVAL_MS * 1000)
                        ELSE 0,
              keys |-> r.keys, checked |-> active]

\* a variant that initializes on every call
swipe_fsm_init_always(f) == [SwipeFsmZero EXCEPT !.tp = TRUE]

\* if (fsm.tp) return; memset; state and locked_direction; fsm.tp = tp
swipe_fsm_init(f) == IF f.tp THEN f ELSE [SwipeFsmZero EXCEPT !.tp = TRUE]

\* a variant that follows a frame of the other axis to the other active state
swipe_active_frame_switching(f, current_direction, delta, time) ==
    IF current_direction = SWIPE_DIR_NONE
    THEN [fsm |-> f, keys |-> <<>>, checked |-> FALSE]
    ELSE LET r == process_accumulated_movement(
                      [f EXCEPT !.state =
                                    IF current_direction
                                           \in {SWIPE_DIR_UP, SWIPE_DIR_DOWN}
                                    THEN SWIPE_STATE_VERTICAL_ACTIVE
                                    ELSE SWIPE_STATE_HORIZONTAL_ACTIVE,
                                !.locked_direction = current_direction,
                                !.accumulated_delta =
                                    (IF current_direction # f.locked_direction
                                     THEN 0 ELSE @)
                                    + (Abs(delta[1]) + Abs(delta[2]))
                                          * calculate_speed_multiplier(
                                                DeltaMagnitude(delta))],
                      time)
         IN  [fsm |-> r.fsm, keys |-> r.keys, checked |-> TRUE]

\* a variant that keeps the accumulator when the direction is reversed
swipe_active_frame_carrying(f, current_direction, delta, time) ==
    LET vertical == f.state = SWIPE_STATE_VERTICAL_ACTIVE
        on_axis == IF vertical
                   THEN current_direction \in {SWIPE_DIR_UP, SWIPE_DIR_DOWN}
                   ELSE current_direction \in {SWIPE_DIR_LEFT, SWIPE_DIR_RIGHT}
    IN  IF ~on_axis THEN [fsm |-> f, keys |-> <<>>, checked |-> FALSE]
        ELSE LET r == process_accumulated_movement(
                          [f EXCEPT !.locked_direction = current_direction,
                                    !.accumulated_delta =
                                        @ + (Abs(delta[1]) + Abs(delta[2]))
                                              * calculate_speed_multiplier(
                                                    DeltaMagnitude(delta))],
                          time)
             IN  [fsm |-> r.fsm, keys |-> r.keys, checked |-> TRUE]

\* the active states: a frame on the locked axis accumulates and checks
\* the key-emission check runs on every frame of an active state
swipe_active_frame_checking(f, current_direction, delta, time) ==
    LET vertical == f.state = SWIPE_STATE_VERTICAL_ACTIVE
        on_axis == IF vertical
                   THEN current_direction \in {SWIPE_DIR_UP, SWIPE_DIR_DOWN}
                   ELSE current_direction \in {SWIPE_DIR_LEFT, SWIPE_DIR_RIGHT}
        flipped == current_direction # f.locked_direction
        speed_mult == calculate_speed_multiplier(DeltaMagnitude(delta))
        effective_delta ==
            IF vertical
            THEN (IF current_direction = SWIPE_DIR_UP THEN -delta[2] ELSE delta[2])
            ELSE (IF current_direction = SWIPE_DIR_RIGHT THEN delta[1] ELSE -delta[1])
        r == process_accumulated_movement(
                 IF on_axis
                 THEN [f EXCEPT !.locked_direction = current_direction,
                                !.accumulated_delta =
                                    (IF flipped THEN 0 ELSE @)
                                    + effective_delta * speed_mult]
                 ELSE f,
                 time)
    IN  [fsm |-> r.fsm, keys |-> r.keys, checked |-> TRUE]

\* a variant that takes the on-axis delta along the direction locked before
\* the frame
swipe_active_frame_stale(f, current_direction, delta, time) ==
    LET vertical == f.state = SWIPE_STATE_VERTICAL_ACTIVE
        on_axis == IF vertical
                   THEN current_direction \in {SWIPE_DIR_UP, SWIPE_DIR_DOWN}
                   ELSE current_direction \in {SWIPE_DIR_LEFT, SWIPE_DIR_RIGHT}
        flipped == current_direction # f.locked_direction
        speed_mult == calculate_speed_multiplier(DeltaMagnitude(delta))
        effective_delta ==
            IF vertical
            THEN (IF f.locked_direction = SWIPE_DIR_UP THEN -delta[2] ELSE delta[2])
            ELSE (IF f.locked_direction = SWIPE_DIR_RIGHT THEN delta[1] ELSE -delta[1])
    IN  IF ~on_axis THEN [fsm |-> f, keys |-> <<>>, checked |-> FALSE]
        ELSE LET r == process_accumulated_movement(
                          [f EXCEPT !.locked_direction = current_direction,
                                    !.accumulated_delta =
                                        (IF flipped THEN 0 ELSE @)
                                        + effective_delta * speed_mult],
                          time)
             IN  [fsm |-> r.fsm, keys |-> r.keys, checked |-> TRUE]

swipe_active_frame(f, current_direction, delta, time) ==
    LET vertical == f.state = SWIPE_STATE_VERTICAL_ACTIVE
        on_axis == IF vertical
                   THEN current_direction \in {SWIPE_DIR_UP, SWIPE_DIR_DOWN}
                   ELSE current_direction \in {SWIPE_DIR_LEFT, SWIPE_DIR_RIGHT}
        flipped == current_direction # f.locked_direction
        speed_mult == calculate_speed_multiplier(DeltaMagnitude(delta))
        effective_delta ==
            IF vertical
            THEN (IF current_direction = SWIPE_DIR_UP THEN -delta[2] ELSE delta[2])
            ELSE (IF current_direction = SWIPE_DIR_RIGHT THEN delta[1] ELSE -delta[1])
    IN  IF ~on_axis THEN [fsm |-> f, keys |-> <<>>, checked |-> FALSE]
        ELSE LET r == process_accumulated_movement(
                          [f EXCEPT !.locked_direction = current_direction,
                                    !.accumulated_delta =
                                        (IF flipped THEN 0 ELSE @)
                                        + effective_delta * speed_mult],
                          time)
             IN  [fsm |-> r.fsm, keys |-> r.keys, checked |-> TRUE]

\* a variant that locks in on the second matching frame
detection_reached_early(consecutive_count) ==
    consecutive_count >= SWIPE_DETECTION_THRESHOLD - 1

\* fsm->consecutive_count >= SWIPE_DETECTION_THRESHOLD
detection_reached(consecutive_count) ==
    consecutive_count >= SWIPE_DETECTION_THRESHOLD

\* a variant in which only a frame with a direction refreshes last_event_time
tp_deal_with_it_moving(f0, timer, time, finger_count, delta) ==
    LET f1 == swipe_fsm_init(f0)
        f2 == IF get_primary_direction(delta) = SWIPE_DIR_NONE THEN f1
              ELSE [f1 EXCEPT !.last_event_time = time]
        current_direction == get_primary_direction(delta)
        same == [fsm |-> f2, timer |-> timer, keys |-> <<>>, checked |-> FALSE]
    IN  IF finger_count # 4
        THEN [fsm |-> f1, timer |-> timer, keys |-> <<>>, checked |-> FALSE]
        ELSE CASE f2.state = SWIPE_STATE_IDLE ->
                 IF current_direction # SWIPE_DIR_NONE
                 THEN [same EXCEPT
                          !.fsm = [f2 EXCEPT !.state = SWIPE_STATE_DETECTING,
                                             !.candidate_direction = current_direction,
                                             !.consecutive_count = 1,
                                             !.state_enter_time = time,
                                             !.timer_active = TRUE],
                          !.timer = IF f2.timer_active THEN timer
                                    ELSE libinput_timer_set(
                                             time + SWIPE_BASE_INTERVAL_MS * 1000)]
                 ELSE same
               [] f2.state = SWIPE_STATE_DETECTING ->
                 IF current_direction = f2.candidate_direction
                 THEN IF detection_reached(f2.consecutive_count + 1)
                      THEN [same EXCEPT
                               !.fsm = [f2 EXCEPT
                                   !.consecutive_count = @ + 1,
                                   !.locked_direction = f2.candidate_direction,
                                   !.accumulated_delta = 0,
                                   !.keys_sent = 0,
                                   !.state =
                                       IF f2.candidate_direction
                                              \in {SWIPE_DIR_UP, SWIPE_DIR_DOWN}
                                       THEN SWIPE_STATE_VERTICAL_ACTIVE
                                       ELSE SWIPE_STATE_HORIZONTAL_ACTIVE]]
                      ELSE [same EXCEPT
                               !.fsm = [f2 EXCEPT !.consecutive_count = @ + 1]]
                 ELSE IF current_direction # SWIPE_DIR_NONE
                 THEN [same EXCEPT
                          !.fsm = [f2 EXCEPT !.candidate_direction = current_direction,
                                             !.consecutive_count = 1]]
                 ELSE same
               [] f2.state \in {SWIPE_STATE_VERTICAL_ACTIVE,
                                SWIPE_STATE_HORIZONTAL_ACTIVE} ->
                 [timer |-> timer,
                  fsm |-> swipe_active_frame(f2, current_direction, delta, time).fsm,
                  keys |-> swipe_active_frame(f2, current_direction, delta, time).keys,
                  checked |->
                      swipe_active_frame(f2, current_direction, delta, time).checked]
               [] OTHER -> same

\* the whole of tp_deal_with_it on (fsm, timer)
tp_deal_with_it(f0, timer, time, finger_count, delta) ==
    LET f1 == swipe_fsm_init(f0)
        f2 == [f1 EXCEPT !.last_event_time = time]
        current_direction == get_primary_direction(delta)
        same == [fsm |-> f2, timer |-> timer, keys |-> <<>>, checked |-> FALSE]
    IN  IF finger_count # 4
        THEN [fsm |-> f1, timer |-> timer, keys |-> <<>>, checked |-> FALSE]
        ELSE CASE f2.state = SWIPE_STATE_IDLE ->
                 IF current_direction # SWIPE_DIR_NONE
                 THEN [same EXCEPT
                          !.fsm = [f2 EXCEPT !.state = SWIPE_STATE_DETECTING,
                                             !.candidate_direction = current_direction,
                                             !.consecutive_count = 1,
                                             !.state_enter_time = time,
                                             !.timer_active = TRUE],
                          !.timer = IF f2.timer_active THEN timer
                                    ELSE libinput_timer_set(
                                             time + SWIPE_BASE_INTERVAL_MS * 1000)]
                 ELSE same
               [] f2.state = SWIPE_STATE_DETECTING ->
                 IF current_direction = f2.candidate_direction
                 THEN IF detection_reached(f2.consecutive_count + 1)
                      THEN [same EXCEPT
                               !.fsm = [f2 EXCEPT
                                   !.consecutive_count = @ + 1,
                                   !.locked_direction = f2.candidate_direction,
                                   !.accumulated_delta = 0,
                                   !.keys_sent = 0,
                                   !.state =
                                       IF f2.candidate_direction
                                              \in {SWIPE_DIR_UP, SWIPE_DIR_DOWN}
                                       THEN SWIPE_STATE_VERTICAL_ACTIVE
                                       ELSE SWIPE_STATE_HORIZONTAL_ACTIVE]]
                      ELSE [same EXCEPT
                               !.fsm = [f2 EXCEPT !.consecutive_count = @ + 1]]
                 ELSE IF current_direction # SWIPE_DIR_NONE
                 THEN [same EXCEPT
                          !.fsm = [f2 EXCEPT !.candidate_direction = current_direction,
                                             !.consecutive_count = 1]]
                 ELSE same
               [] f2.state \in {SWIPE_STATE_VERTICAL_ACTIVE,
                                SWIPE_STATE_HORIZONTAL_ACTIVE} ->
                 [timer |-> timer,
                  fsm |-> swipe_active_frame(f2, current_direction, delta, time).fsm,
                  keys |-> swipe_active_frame(f2, current_direction, delta, time).keys,
                  checked |->
                      swipe_active_frame(f2, current_direction, delta, time).checked]
               [] OTHER -> same

\* history: the fields of the fsm a step started from
SwipeBefore(f) ==
    [state |-> f.state, locked_direction |-> f.locked_direction,
     accumulated_delta |-> f.accumulated_delta,
     candidate_direction |-> f.candidate_direction,
     consecutive_count |-> f.consecutive_count,
     last_event_time |-> f.last_event_time,
     timer |-> swipe_timer]

SwipeActive == {SWIPE_STATE_VERTICAL_ACTIVE, SWIPE_STATE_HORIZONTAL_ACTIVE}

\* history: the last three non-none directions of four-finger frames
PushRecent(recent, dir) ==
    IF dir = SWIPE_DIR_NONE THEN recent
    ELSE IF Len(recent) < 3 THEN Append(recent, dir)
    ELSE Append(Tail(recent), dir)

\* history: what the frame added to the accumulator (0 if it added nothing)
FrameContribution(f, dir, delta) ==
    IF f.state = SWIPE_STATE_VERTICAL_ACTIVE /\ dir \in {SWIPE_DIR_UP, SWIPE_DIR_DOWN}
    THEN Abs(delta[2]) * calculate_speed_multiplier(DeltaMagnitude(delta))
    ELSE IF f.state = SWIPE_STATE_HORIZONTAL_ACTIVE
            /\ dir \in {SWIPE_DIR_LEFT, SWIPE_DIR_RIGHT}
    THEN Abs(delta[1]) * calculate_speed_multiplier(DeltaMagnitude(delta))
    ELSE 0

\* history: the sum of the contributions and the key pairs since the lock-in
\* or the last change of direction
HistAfter(before, after, dir, contrib, keys) ==
    IF after.state \notin SwipeActive
    THEN [swipe_hist EXCEPT !.sum = 0, !.pairs = 0, !.biggest = 0]
    ELSE IF before.state \notin SwipeActive
    THEN [swipe_hist EXCEPT !.sum = 0, !.pairs = 0, !.biggest = 0]
    ELSE IF after.locked_direction # before.locked_direction
    THEN [swipe_hist EXCEPT !.sum = contrib, !.pairs = Len(keys) \div 2,
                            !.biggest = contrib]
    ELSE [swipe_hist EXCEPT !.sum = @ + contrib, !.pairs = @ + Len(keys) \div 2,
                            !.biggest = IF contrib > @ THEN contrib ELSE @]

\* the delta of the scenario frames: (0, -5)
ScenarioDelta == <<0, -50>>

\* history: how many frames with the scenario delta, and nothing else, have
\* come since idle (-1 once another four-finger frame has come)
RunAfter(before, after, finger_count, delta) ==
    IF after.state = SWIPE_STATE_IDLE THEN 0
    ELSE IF finger_count # 4 THEN swipe_hist.run
    ELSE IF delta = ScenarioDelta
            /\ (swipe_hist.run > 0
                    \/ (swipe_hist.run = 0 /\ before.state = SWIPE_STATE_IDLE))
    THEN swipe_hist.run + 1
    ELSE -1

\* history: the key pairs sent since idle
RunPairsAfter(after, keys) ==
    IF after.state = SWIPE_STATE_IDLE THEN 0
    ELSE swipe_hist.run_pairs + Len(keys) \div 2

\* time passes during a swipe
AdvanceSwipe ==
    /\ \E t \in SwipeTimePoints : t > now /\ now' = t
    /\ UNCHANGED <<edge_vars, swipe_vars, touch_vars>>

\* one call of tp_deal_with_it(tp, now, ...); successive four-finger frames
\* carry increasing timestamps
SwipeFrame ==
    \E finger_count \in FingerCounts, delta \in SwipeDeltas :
        /\ finger_count = 4 => now > swipe_fsm.last_event_time
        /\ finger_count # 4 => delta \in OtherFrameDeltas
        /\ \E r \in {tp_deal_with_it(swipe_fsm, swipe_timer, now, finger_count,
                                     delta)} :
            LET dir == IF finger_count = 4 THEN get_primary_direction(delta)
                       ELSE SWIPE_DIR_NONE
                contrib == IF finger_count = 4
                           THEN FrameContribution(swipe_fsm, dir, delta) ELSE 0
            IN  /\ swipe_fsm' = r.fsm
                /\ swipe_timer' = r.timer
                /\ swipe_last' = [op |-> IF finger_count = 4 THEN "frame" ELSE "other",
                                  keys |-> r.keys, checked |-> r.checked,
                                  before |-> SwipeBefore(swipe_fsm), dir |-> dir,
                                  at_check |->
                                      IF dir # swipe_fsm.locked_direction
                                      THEN contrib
                                      ELSE swipe_fsm.accumulated_delta + contrib,
                                  delta |-> delta, contrib |-> contrib,
                                  time |-> now]
                /\ swipe_hist' =
                       [HistAfter(swipe_fsm, r.fsm, dir, contrib, r.keys)
                            EXCEPT !.recent =
                                PushRecent(IF swipe_fsm.state = SWIPE_STATE_IDLE
                                           THEN <<>> ELSE @, dir),
                                   !.run = RunAfter(swipe_fsm, r.fsm,
                                                    finger_count, delta),
                                   !.run_pairs = RunPairsAfter(r.fsm, r.keys)]
        /\ UNCHANGED <<now, edge_vars, touch_vars>>

\* the armed swipe timer expires: libinput disarms it and calls the callback
SwipeTimer ==
    /\ swipe_timer # 0
    /\ now >= swipe_timer
    /\ \E r \in {swipe_timer_handler(swipe_fsm, now)} :
           /\ swipe_fsm' = r.fsm
           /\ swipe_timer' = r.timer
           /\ swipe_last' = [op |-> "timer", keys |-> r.keys, checked |-> r.checked,
                             before |-> SwipeBefore(swipe_fsm), dir |-> SWIPE_DIR_NONE,
                             at_check |-> swipe_fsm.accumulated_delta,
                             delta |-> <<0, 0>>, contrib |-> 0, time |-> now]
           /\ swipe_hist' =
                  [HistAfter(swipe_fsm, r.fsm, SWIPE_DIR_NONE, 0, r.keys)
                       EXCEPT !.recent = IF r.fsm.state = SWIPE_STATE_IDLE
                                         THEN <<>> ELSE @,
                              !.run = IF r.fsm.state = SWIPE_STATE_IDLE
                                      THEN 0 ELSE @,
                              !.run_pairs = RunPairsAfter(r.fsm, r.keys)]
    /\ UNCHANGED <<now, edge_vars, touch_vars>>

\* tp_swipe_fsm_cleanup
SwipeCleanup ==
    /\ swipe_fsm' = SwipeFsmZero
    /\ swipe_timer' = 0
    /\ swipe_last' = [op |-> "cleanup", keys |-> <<>>, checked |-> FALSE,
                      before |-> SwipeBefore(swipe_fsm), dir |-> SWIPE_DIR_NONE,
                      at_check |-> 0, delta |-> <<0, 0>>, contrib |-> 0,
                      time |-> now, cancelled |-> TRUE]
    /\ swipe_hist' = [recent |-> <<>>, sum |-> 0, pairs |-> 0, biggest |-> 0,
                      run |-> 0, run_pairs |-> 0]
    /\ UNCHANGED <<now, edge_vars, touch_vars>>

NextSwipe ==
    \/ AdvanceSwipe
    \/ SwipeFrame
    \/ SwipeTimer
    \/ SwipeCleanup

\* the four-finger swipe FSM
SpecSwipe == Init /\ [][NextSwipe]_vars

\* the swipe FSM put in cooldown at time 0 with the timer armed for the next
\* tick; no call of the code enters this state, the handlers are run on it
\* as functions of the fsm they are given
InitCooldown ==
    /\ now = 0
    /\ EdgeInit
    /\ TouchInit
    /\ swipe_fsm \in
           {[SwipeFsmZero EXCEPT !.state = SWIPE_STATE_COOLDOWN,
                                 !.tp = TRUE,
                                 !.timer_active = TRUE,
                                 !.locked_direction = d,
                                 !.accumulated_delta = AccOne] :
               d \in {SWIPE_DIR_UP, SWIPE_DIR_LEFT}}
    /\ swipe_timer = libinput_timer_set(SWIPE_BASE_INTERVAL_MS * 1000)
    /\ swipe_last = [op |-> "init", keys |-> <<>>, checked |-> FALSE,
                     before |-> SwipeBefore(SwipeFsmZero), dir |-> SWIPE_DIR_NONE,
                     at_check |-> 0, delta |-> <<0, 0>>, contrib |-> 0,
                     time |-> 0]
    /\ swipe_hist = [recent |-> <<>>, sum |-> 0, pairs |-> 0, biggest |-> 0,
                     run |-> -1, run_pairs |-> 0]

\* the handlers of the swipe FSM, started in cooldown
SpecSwipeCooldown == InitCooldown /\ [][NextSwipe]_vars

\* the time step after which no four-finger frame comes any more
LastFrameStep == 3

\* four-finger frames come until LastFrameStep, then they stop
SwipeFrameUntilStop ==
    /\ now <= LastFrameStep * SwipeStepUs
    /\ SwipeFrame

\* time passes until the armed swipe timer expires
AdvanceToExpiry ==
    /\ swipe_timer > now
    /\ now' = swipe_timer
    /\ UNCHANGED <<edge_vars, swipe_vars, touch_vars>>

NextSwipeLive ==
    \/ AdvanceSwipe
    \/ AdvanceToExpiry
    \/ SwipeFrameUntilStop
    \/ SwipeTimer
    \/ SwipeCleanup

\* the swipe FSM with frames that stop, a clock that reaches every expiry of
\* the armed timer, and a timer subsystem that calls back once it has
SpecSwipeLive ==
    /\ Init
    /\ [][NextSwipeLive]_vars
    /\ WF_vars(AdvanceToExpiry)
    /\ WF_vars(SwipeTimer)

(***************************************************************************)
(* Properties of the timer-driven edge-motion FSM.                         *)
(***************************************************************************)
EdgeStates == {STATE_DRAG_EDGE_ENTRY, STATE_DRAG_EDGE_CONTINUOUS}

CalmStates == {STATE_IDLE, STATE_DRAG_ACTIVE_CENTERED, STATE_DRAG_EDGE_EXIT}

\* the transition table of the specification, row by row
TransitionTable(current, drag_active, edges) ==
    IF ~drag_active THEN STATE_IDLE
    ELSE IF current \in CalmStates /\ edges = {} THEN STATE_DRAG_ACTIVE_CENTERED
    ELSE IF current \in CalmStates /\ edges # {} THEN STATE_DRAG_EDGE_ENTRY
    ELSE IF current \in EdgeStates /\ edges = {} THEN STATE_DRAG_EDGE_EXIT
    ELSE STATE_DRAG_EDGE_CONTINUOUS

\* C1: after every frame call the state is the one the transition table gives
\* for the state before the call, the drag signal and the detected edges.
C1_TransitionTable ==
    edge_last.op = "frame" =>
        edge_motion_fsm.current_state =
            TransitionTable(edge_last.prev, edge_last.drag, edge_last.edge)

\* a frame took edge_entry to edge_active
C1_Witness ==
    /\ edge_last.op = "frame"
    /\ edge_last.prev = STATE_DRAG_EDGE_ENTRY
    /\ edge_last.drag
    /\ edge_last.edge # {}
    /\ edge_motion_fsm.current_state = STATE_DRAG_EDGE_CONTINUOUS

\* C2: the motion timer is armed exactly in edge_entry and edge_active.
C2_TimerArmedIffEdgeState ==
    (edge_timer # 0) <=> (edge_motion_fsm.current_state \in EdgeStates)

\* the timer expired in edge_active and is armed again
C2_Witness ==
    /\ edge_last.op = "timeout"
    /\ edge_motion_fsm.current_state = STATE_DRAG_EDGE_CONTINUOUS
    /\ edge_timer # 0

\* C3: a pointer motion is emitted only in edge_entry or edge_active, also by
\* an expiry that was queued when the timer was cancelled.
C3_MotionOnlyInEdgeStates ==
    edge_last.motion.emitted => edge_motion_fsm.current_state \in EdgeStates

\* a queued expiry is delivered after the edge was left and entered again,
\* and emits
C3_Witness ==
    /\ edge_last.op = "stale"
    /\ edge_last.motion.emitted
    /\ edge_motion_fsm.current_state \in EdgeStates

\* the 150 ms entry delay of the specification
EntryDelayUs == 150000

\* C4 as claimed: no motion before the entry delay of 150 ms has elapsed.
C4_NoMotionBeforeEntryDelay ==
    edge_last.motion.emitted =>
        edge_last.motion.time >= edge_episode + EntryDelayUs

\* C4: the frame call that enters edge_entry emits nothing, every motion is
\* later than the entry, and a motion emitted by an expiry of the armed timer
\* is at least the tick interval (8 ms) later than the entry.
C4_NoMotionBeforeFirstTick ==
    edge_last.motion.emitted =>
        /\ edge_last.op \in {"timeout", "stale"}
        /\ edge_last.motion.time > edge_episode
        /\ edge_last.op = "timeout" =>
               edge_last.motion.time >=
                   edge_episode + EDGE_MOTION_CONFIG_MIN_INTERVAL_US

\* the first tick after an entry emits, less than 150 ms after the entry
C4_Witness ==
    /\ edge_last.op = "timeout"
    /\ edge_last.motion.emitted
    /\ edge_motion_fsm.continuous_motion_count = 1
    /\ edge_last.motion.time < edge_episode + EntryDelayUs

\* C5 as claimed: the state stays edge_entry under frames until the timer
\* expires, the expiry moves it to edge_active, and ticks at the left edge
\* emit motion to the left.
C5_EntryLeftByTimer ==
    /\ (edge_last.op = "frame" /\ edge_last.prev = STATE_DRAG_EDGE_ENTRY
        /\ edge_last.drag /\ edge_last.edge # {})
           => edge_motion_fsm.current_state = STATE_DRAG_EDGE_ENTRY
    /\ (edge_last.op = "timeout" /\ edge_last.prev = STATE_DRAG_EDGE_ENTRY)
           => edge_motion_fsm.current_state = STATE_DRAG_EDGE_CONTINUOUS
    /\ (edge_last.motion.emitted /\ edge_motion_fsm.current_edge = {EDGE_LEFT})
           => (edge_last.motion.x < 0 /\ edge_last.motion.y = 0)

\* C5: the next frame with the drag active and the touch at an edge moves
\* edge_entry to edge_active; a timer expiry never changes the state; ticks
\* at the left edge emit motion with x < 0 and y = 0.
C5_EntryLeftByFrame ==
    /\ (edge_last.op = "frame" /\ edge_last.prev = STATE_DRAG_EDGE_ENTRY
        /\ edge_last.drag /\ edge_last.edge # {})
           => edge_motion_fsm.current_state = STATE_DRAG_EDGE_CONTINUOUS
    /\ edge_last.op \in {"timeout", "stale"}
           => edge_motion_fsm.current_state = edge_last.prev
    /\ (edge_last.motion.emitted /\ edge_motion_fsm.current_edge = {EDGE_LEFT})
           => (edge_last.motion.x < 0 /\ edge_last.motion.y = 0)

\* a tick in edge_active at the left edge emits
C5_Witness ==
    /\ edge_last.op = "timeout"
    /\ edge_last.motion.emitted
    /\ edge_motion_fsm.current_state = STATE_DRAG_EDGE_CONTINUOUS
    /\ edge_motion_fsm.current_edge = {EDGE_LEFT}

\* C6: a frame call without the drag signal leaves the FSM in idle.
C6_NoDragGoesIdle ==
    (edge_last.op = "frame" /\ ~edge_last.drag) =>
        edge_motion_fsm.current_state = STATE_IDLE

\* the drag ended in edge_active
C6_Witness ==
    /\ edge_last.op = "frame"
    /\ ~edge_last.drag
    /\ edge_last.prev = STATE_DRAG_EDGE_CONTINUOUS
    /\ edge_motion_fsm.current_state = STATE_IDLE

\* C7: once a frame call has run, the stored active-edge set is empty exactly
\* when the state is neither edge_entry nor edge_active.
C7_EdgesEmptyIffNotEdgeState ==
    edge_last.op \in {"frame", "timeout", "stale"} =>
        ((edge_motion_fsm.current_edge = {})
            <=> (edge_motion_fsm.current_state \notin EdgeStates))

(***************************************************************************)
(* Properties of the four-finger swipe FSM.                                *)
(***************************************************************************)

\* C8: an active state is entered only from detecting, by a four-finger
\* frame that is at least the third frame in a row (frames without a
\* direction aside) carrying the candidate direction; with fewer such frames
\* the FSM stays out of the active states.
C8_DebounceLaw ==
    (swipe_fsm.state \in SwipeActive /\ swipe_last.before.state \notin SwipeActive)
        => /\ swipe_last.op = "frame"
           /\ swipe_last.before.state = SWIPE_STATE_DETECTING
           /\ swipe_last.dir = swipe_fsm.candidate_direction
           /\ swipe_fsm.locked_direction = swipe_fsm.candidate_direction
           /\ Len(swipe_hist.recent) = 3
           /\ \A i \in 1..3 : swipe_hist.recent[i] = swipe_fsm.candidate_direction

\* a lock-in to the left on the third matching frame, not before the fourth
\* time step
C8_Witness ==
    /\ swipe_last.op = "frame"
    /\ swipe_last.before.state = SWIPE_STATE_DETECTING
    /\ swipe_fsm.state = SWIPE_STATE_HORIZONTAL_ACTIVE
    /\ swipe_fsm.locked_direction = SWIPE_DIR_LEFT
    /\ swipe_fsm.consecutive_count = 3
    /\ now >= 4 * SwipeStepUs

\* the key the rule maps to a locked direction
KeyOfDirection ==
    [d \in {SWIPE_DIR_UP, SWIPE_DIR_DOWN, SWIPE_DIR_LEFT, SWIPE_DIR_RIGHT} |->
        IF d = SWIPE_DIR_UP THEN "KEY_VOLUMEUP"
        ELSE IF d = SWIPE_DIR_DOWN THEN "KEY_VOLUMEDOWN"
        ELSE IF d = SWIPE_DIR_LEFT THEN "KEY_BRIGHTNESSDOWN"
        ELSE "KEY_BRIGHTNESSUP"]

\* 8.0 for the vertical directions, 10.0 for the horizontal ones
ThresholdOfDirection ==
    [d \in {SWIPE_DIR_UP, SWIPE_DIR_DOWN, SWIPE_DIR_LEFT, SWIPE_DIR_RIGHT} |->
        IF d \in {SWIPE_DIR_UP, SWIPE_DIR_DOWN} THEN 8 * AccOne ELSE 10 * AccOne]

\* C9: a key-emission check (made by every accumulating frame and by every
\* timer tick in an active state that is not an inactivity reset) with
\* |accumulated_delta| at or above the threshold of the locked direction
\* emits one press and then one release of the key mapped to that direction
\* and takes exactly the threshold off |accumulated_delta|, sign kept; below
\* the threshold it emits nothing and leaves the accumulator alone; a step
\* without a check emits nothing.
C9_KeyEmissionRule ==
    /\ ~swipe_last.checked => swipe_last.keys = <<>>
    /\ (swipe_last.op = "frame" /\ swipe_last.before.state \in SwipeActive
            /\ swipe_fsm.accumulated_delta # swipe_last.before.accumulated_delta)
           => swipe_last.checked
    /\ swipe_last.checked =>
         LET d == swipe_fsm.locked_direction
             a == swipe_last.at_check
         IN  /\ swipe_fsm.state \in SwipeActive
             /\ d # SWIPE_DIR_NONE
             /\ IF Abs(a) >= ThresholdOfDirection[d]
                THEN /\ swipe_last.keys =
                            <<[key |-> KeyOfDirection[d], state |-> "PRESSED"],
                              [key |-> KeyOfDirection[d], state |-> "RELEASED"]>>
                     /\ Abs(swipe_fsm.accumulated_delta)
                            = Abs(a) - ThresholdOfDirection[d]
                     /\ Sign(swipe_fsm.accumulated_delta) \in {0, Sign(a)}
                ELSE /\ swipe_last.keys = <<>>
                     /\ swipe_fsm.accumulated_delta = a

\* a timer tick whose check emits the volume-up key and leaves a residual
C9_Witness ==
    /\ swipe_last.checked
    /\ swipe_last.op = "timer"
    /\ Len(swipe_last.keys) = 2
    /\ swipe_last.keys[1].key = KEY_VOLUMEUP
    /\ swipe_fsm.accumulated_delta > 0

\* C10 as stated: whenever the contributions since the lock-in (or the last
\* change of direction) sum to exactly twice the threshold, exactly two key
\* pairs have been emitted and the accumulator is 0.
C10_TwoThresholdsTwoPairs ==
    (swipe_fsm.state \in SwipeActive
         /\ swipe_hist.sum = 2 * SwipeThreshold(swipe_fsm.locked_direction))
        => (swipe_hist.pairs = 2 /\ swipe_fsm.accumulated_delta = 0)

\* C10: when the contributions since the lock-in (or the last change of
\* direction) sum to exactly twice the threshold and no single frame
\* contributed more than one threshold, exactly two key pairs have been
\* emitted and the accumulator is 0; a check emits one pair at most, so
\* after a frame that contributed more than one threshold either that holds
\* or one pair has been emitted and exactly one threshold is still
\* accumulated.
C10_TwoThresholdsOnePairPerCheck ==
    (swipe_fsm.state \in SwipeActive
         /\ swipe_hist.sum = 2 * SwipeThreshold(swipe_fsm.locked_direction))
        => \/ swipe_hist.pairs = 2 /\ swipe_fsm.accumulated_delta = 0
           \/ /\ swipe_hist.biggest > SwipeThreshold(swipe_fsm.locked_direction)
              /\ swipe_hist.pairs = 1
              /\ swipe_fsm.accumulated_delta
                     = SwipeThreshold(swipe_fsm.locked_direction)

\* two frames of one threshold each have been processed
C10_Witness ==
    /\ swipe_fsm.state = SWIPE_STATE_VERTICAL_ACTIVE
    /\ swipe_last.op = "frame"
    /\ swipe_hist.sum = 2 * SWIPE_VOLUME_THRESHOLD
    /\ swipe_hist.biggest = SWIPE_VOLUME_THRESHOLD
    /\ swipe_hist.pairs = 2
    /\ swipe_fsm.accumulated_delta = 0

\* the press and release of volume-up
VolumeUpPair ==
    <<[key |-> "KEY_VOLUMEUP", state |-> "PRESSED"],
      [key |-> "KEY_VOLUMEUP", state |-> "RELEASED"]>>

\* C11 as stated: from idle, frames with delta (0, -5) and no other frame
\* lock the FSM to vertical_active / up on the 3rd frame, and after the 5th
\* frame exactly one volume-up pair has been emitted and accumulated_delta
\* is not 0.
C11_FiveFramesOnePair ==
    /\ swipe_hist.run \in 1..2 => swipe_fsm.state = SWIPE_STATE_DETECTING
    /\ swipe_hist.run >= 3 =>
           /\ swipe_fsm.state = SWIPE_STATE_VERTICAL_ACTIVE
           /\ swipe_fsm.locked_direction = SWIPE_DIR_UP
    /\ swipe_hist.run = 5 =>
           /\ swipe_hist.run_pairs = 1
           /\ swipe_fsm.accumulated_delta # 0

\* C11: from idle, frames with delta (0, -5) and no other frame lock the FSM
\* to vertical_active / up on the 3rd frame; the 4th and the 5th frame each
\* contribute 5 x 1.654 = 8.27 and each emit one volume-up pair, so that
\* after the 5th frame exactly two pairs have been emitted and
\* accumulated_delta is 2 x 0.27 = 0.54, not 0.
C11_FiveFramesTwoPairs ==
    /\ swipe_hist.run \in 1..2 =>
           /\ swipe_fsm.state = SWIPE_STATE_DETECTING
           /\ swipe_hist.run_pairs = 0
    /\ swipe_hist.run >= 3 =>
           /\ swipe_fsm.state = SWIPE_STATE_VERTICAL_ACTIVE
           /\ swipe_fsm.locked_direction = SWIPE_DIR_UP
    /\ swipe_hist.run = 3 =>
           /\ swipe_hist.run_pairs = 0
           /\ swipe_fsm.accumulated_delta = 0
    /\ (swipe_hist.run \in 4..5 /\ swipe_last.op = "frame") =>
           swipe_last.keys = VolumeUpPair
    /\ swipe_hist.run = 4 =>
           /\ swipe_hist.run_pairs = 1
           /\ swipe_fsm.accumulated_delta = 50 * 430 - 8 * AccOne
    /\ swipe_hist.run = 5 =>
           /\ swipe_hist.run_pairs = 2
           /\ swipe_fsm.accumulated_delta = 2 * (50 * 430 - 8 * AccOne)
           /\ swipe_fsm.accumulated_delta # 0

\* the fifth frame of the scenario has just been processed
C11_Witness ==
    /\ swipe_hist.run = 5
    /\ swipe_last.op = "frame"
    /\ swipe_last.delta = <<0, -50>>
    /\ swipe_fsm.keys_sent = 2

\* what a tick finds when no four-finger frame has come for more than 200 ms
InactivityReset ==
    (swipe_last.op = "timer"
         /\ swipe_last.before.state # SWIPE_STATE_IDLE
         /\ swipe_last.time - swipe_last.before.last_event_time > 200 * 1000)
        => /\ swipe_fsm.state = SWIPE_STATE_IDLE
           /\ swipe_fsm.locked_direction = SWIPE_DIR_NONE
           /\ swipe_fsm.consecutive_count = 0
           /\ swipe_fsm.accumulated_delta = 0
           /\ ~swipe_fsm.timer_active
           /\ swipe_timer = 0

\* C12: a timer tick that finds the FSM not idle more than 200 ms after the
\* last four-finger frame sets state to idle, locked_direction to none, the
\* count and accumulated_delta to 0 and disarms the timer; and, armed timers
\* firing eventually, a FSM that is not idle is idle again later, once the
\* frames have stopped.
C12_InactivityTimeout ==
    /\ []InactivityReset
    /\ (swipe_fsm.state # SWIPE_STATE_IDLE) ~> (swipe_fsm.state = SWIPE_STATE_IDLE)

\* an active FSM has just been reset by a tick, 200 ms and more after the
\* last frame
C12_Witness ==
    /\ swipe_last.op = "timer"
    /\ swipe_last.before.state = SWIPE_STATE_VERTICAL_ACTIVE
    /\ swipe_last.before.locked_direction = SWIPE_DIR_UP
    /\ swipe_last.time - swipe_last.before.last_event_time > 200 * 1000
    /\ swipe_fsm.state = SWIPE_STATE_IDLE

\* C13: whenever the swipe FSM is not idle, the shared timer is armed: a
\* tick is pending.
C13_TimerArmedUnlessIdle ==
    swipe_fsm.state # SWIPE_STATE_IDLE
        => (swipe_timer # 0 /\ swipe_fsm.timer_active)

\* a tick has found an active FSM and has scheduled the next tick
C13_Witness ==
    /\ swipe_last.op = "timer"
    /\ swipe_last.checked
    /\ swipe_fsm.state = SWIPE_STATE_HORIZONTAL_ACTIVE
    /\ swipe_timer = swipe_last.time + 80 * 1000

\* C14: a call of tp_deal_with_it with a finger count other than 4 leaves
\* state, locked_direction, candidate_direction, consecutive_count,
\* accumulated_delta, last_event_time and the timer as they were and emits
\* no key.
C14_OtherFingerCountNoOp ==
    swipe_last.op = "other" =>
        /\ swipe_fsm.state = swipe_last.before.state
        /\ swipe_fsm.locked_direction = swipe_last.before.locked_direction
        /\ swipe_fsm.candidate_direction = swipe_last.before.candidate_direction
        /\ swipe_fsm.consecutive_count = swipe_last.before.consecutive_count
        /\ swipe_fsm.accumulated_delta = swipe_last.before.accumulated_delta
        /\ swipe_fsm.last_event_time = swipe_last.before.last_event_time
        /\ swipe_timer = swipe_last.before.timer
        /\ swipe_last.keys = <<>>
        /\ ~swipe_last.checked

\* a three-finger frame with a large delta has come in an active state with
\* displacement accumulated and the timer armed
C14_Witness ==
    /\ swipe_last.op = "other"
    /\ swipe_last.delta = <<0, -320>>
    /\ swipe_fsm.state = SWIPE_STATE_VERTICAL_ACTIVE
    /\ swipe_fsm.accumulated_delta > 0
    /\ swipe_timer # 0
    /\ swipe_last.time > swipe_fsm.last_event_time

\* C15: in detecting, a four-finger frame with the candidate direction
\* increments the count and, when the count reaches 3, sets locked_direction
\* to the candidate, accumulated_delta and the key counter to 0 and moves to
\* vertical_active for up / down, to horizontal_active for left / right; a
\* frame with another direction makes that the candidate with count 1; a
\* frame without a direction changes neither state, candidate nor count.
C15_LockInStep ==
    (swipe_last.op = "frame" /\ swipe_last.before.state = SWIPE_STATE_DETECTING) =>
        LET b == swipe_last.before
            d == swipe_last.dir
        IN  IF d = SWIPE_DIR_NONE
            THEN /\ swipe_fsm.state = SWIPE_STATE_DETECTING
                 /\ swipe_fsm.candidate_direction = b.candidate_direction
                 /\ swipe_fsm.consecutive_count = b.consecutive_count
            ELSE IF d # b.candidate_direction
            THEN /\ swipe_fsm.state = SWIPE_STATE_DETECTING
                 /\ swipe_fsm.candidate_direction = d
                 /\ swipe_fsm.consecutive_count = 1
            ELSE /\ swipe_fsm.candidate_direction = d
                 /\ swipe_fsm.consecutive_count = b.consecutive_count + 1
                 /\ IF swipe_fsm.consecutive_count = 3
                    THEN /\ swipe_fsm.locked_direction = d
                         /\ swipe_fsm.accumulated_delta = 0
                         /\ swipe_fsm.keys_sent = 0
                         /\ swipe_fsm.state =
                                IF d \in {"SWIPE_DIR_UP", "SWIPE_DIR_DOWN"}
                                THEN SWIPE_STATE_VERTICAL_ACTIVE
                                ELSE SWIPE_STATE_HORIZONTAL_ACTIVE
                    ELSE /\ swipe_fsm.consecutive_count < 3
                         /\ swipe_fsm.state = SWIPE_STATE_DETECTING
                         /\ swipe_fsm.locked_direction = b.locked_direction

\* a lock-in downwards on the third matching frame
C15_Witness ==
    /\ swipe_last.op = "frame"
    /\ swipe_last.before.state = SWIPE_STATE_DETECTING
    /\ swipe_last.before.consecutive_count = 2
    /\ swipe_last.dir = SWIPE_DIR_DOWN
    /\ swipe_fsm.state = SWIPE_STATE_VERTICAL_ACTIVE
    /\ swipe_fsm.locked_direction = SWIPE_DIR_DOWN
    /\ swipe_fsm.keys_sent = 0

\* a frame with another direction has replaced the candidate of two frames
C15_CandidateReplaced ==
    /\ swipe_last.op = "frame"
    /\ swipe_last.before.state = SWIPE_STATE_DETECTING
    /\ swipe_last.before.consecutive_count = 2
    /\ swipe_last.dir # swipe_last.before.candidate_direction
    /\ swipe_fsm.consecutive_count = 1

\* C16: vertical_active is never directly followed by horizontal_active nor
\* horizontal_active by vertical_active: an active state is followed by
\* itself or by idle, so that the locked axis changes only through idle.
C16_AxisLock ==
    [][swipe_fsm.state \in SwipeActive
           => swipe_fsm'.state \in {swipe_fsm.state, SWIPE_STATE_IDLE}]_vars

\* a frame to the left has come in vertical_active and has been ignored
C16_Witness ==
    /\ swipe_last.op = "frame"
    /\ swipe_last.before.state = SWIPE_STATE_VERTICAL_ACTIVE
    /\ swipe_last.dir = SWIPE_DIR_LEFT
    /\ swipe_fsm.state = SWIPE_STATE_VERTICAL_ACTIVE
    /\ swipe_fsm.locked_direction = swipe_last.before.locked_direction
    /\ swipe_fsm.accumulated_delta = swipe_last.before.accumulated_delta
    /\ swipe_fsm.accumulated_delta > 0

\* the key and the threshold of the new direction, and what the frame adds
\* once the accumulator has been set to 0
ReversalOutcome ==
    LET d == swipe_last.dir
        c == swipe_last.contrib
    IN  /\ swipe_fsm.state = swipe_last.before.state
        /\ swipe_fsm.locked_direction = d
        /\ swipe_last.checked
        /\ swipe_last.at_check = c
        /\ IF c >= ThresholdOfDirection[d]
           THEN /\ swipe_fsm.accumulated_delta = c - ThresholdOfDirection[d]
                /\ Len(swipe_last.keys) = 2
                /\ swipe_last.keys[1].key = KeyOfDirection[d]
           ELSE /\ swipe_fsm.accumulated_delta = c
                /\ swipe_last.keys = <<>>

\* the opposite direction on the same axis
OppositeDirection ==
    [d \in {SWIPE_DIR_NONE, SWIPE_DIR_UP, SWIPE_DIR_DOWN, SWIPE_DIR_LEFT,
            SWIPE_DIR_RIGHT} |->
        IF d = SWIPE_DIR_UP THEN SWIPE_DIR_DOWN
        ELSE IF d = SWIPE_DIR_DOWN THEN SWIPE_DIR_UP
        ELSE IF d = SWIPE_DIR_LEFT THEN SWIPE_DIR_RIGHT
        ELSE IF d = SWIPE_DIR_RIGHT THEN SWIPE_DIR_LEFT
        ELSE SWIPE_DIR_NONE]

\* C17: in an active state a frame whose direction is the opposite one on
\* the locked axis keeps the state, makes its direction the locked one and
\* sets accumulated_delta to 0 before its own contribution is added: what
\* was accumulated for the old direction counts toward no key of the new one.
C17_Reversal ==
    (swipe_last.op = "frame"
         /\ swipe_last.before.state \in SwipeActive
         /\ swipe_last.dir # SWIPE_DIR_NONE
         /\ swipe_last.dir = OppositeDirection[swipe_last.before.locked_direction])
        => ReversalOutcome

\* a frame downwards has come in vertical_active with more than half a
\* threshold accumulated upwards, and has emitted no key
C17_Witness ==
    /\ swipe_last.op = "frame"
    /\ swipe_last.before.state = SWIPE_STATE_VERTICAL_ACTIVE
    /\ swipe_last.before.locked_direction = SWIPE_DIR_UP
    /\ 2 * swipe_last.before.accumulated_delta > SWIPE_VOLUME_THRESHOLD
    /\ swipe_last.dir = SWIPE_DIR_DOWN
    /\ swipe_fsm.locked_direction = SWIPE_DIR_DOWN
    /\ swipe_last.keys = <<>>

\* C18: in cooldown a four-finger frame leaves state, locked_direction and
\* accumulated_delta as they were and emits no key, and the tick that moves
\* the FSM back to idle (locked_direction none, accumulator 0) comes 150 ms
\* or more after cooldown was entered (here: at time 0).
C18_Cooldown ==
    /\ (swipe_last.op = "frame" /\ swipe_last.before.state = SWIPE_STATE_COOLDOWN)
           => /\ swipe_fsm.state = SWIPE_STATE_COOLDOWN
              /\ swipe_fsm.locked_direction = swipe_last.before.locked_direction
              /\ swipe_fsm.accumulated_delta = swipe_last.before.accumulated_delta
              /\ swipe_last.keys = <<>>
    /\ (swipe_last.op = "timer" /\ swipe_last.before.state = SWIPE_STATE_COOLDOWN)
           => /\ swipe_fsm.state = SWIPE_STATE_IDLE
              /\ swipe_fsm.locked_direction = SWIPE_DIR_NONE
              /\ swipe_fsm.accumulated_delta = 0
              /\ swipe_last.time >= 150 * 1000

\* C19: the displacement of a tick is scaled per axis by the multiplier of
\* the touch's distance to the edge (0.5 / 1.0 / 2.0), recomputed on every
\* tick: two ticks that cover the same time with the touch in different
\* speed zones of the same edge inject different displacements.
C19_SpeedByDistance ==
    (/\ Len(edge_ticks) = 2
     /\ edge_ticks[1].dt = edge_ticks[2].dt)
        => /\ (/\ edge_ticks[1].mult[1] # 0
               /\ edge_ticks[2].mult[1] # 0
               /\ edge_ticks[1].mult[1] # edge_ticks[2].mult[1])
                  => Abs(edge_ticks[1].x) # Abs(edge_ticks[2].x)
           /\ (/\ edge_ticks[1].mult[2] # 0
               /\ edge_ticks[2].mult[2] # 0
               /\ edge_ticks[1].mult[2] # edge_ticks[2].mult[2])
                  => Abs(edge_ticks[1].y) # Abs(edge_ticks[2].y)

\* C20: when a frame call is repeated with the same drag signal, edges and
\* time in a state that the transition table maps to itself for them, the
\* second call leaves state, active edges and motion direction unchanged,
\* emits no motion and leaves the pending expiry of the one timer as it is.
C20_FrameIdempotent ==
    [][(/\ edge_last.op = "frame"
        /\ edge_last'.op = "frame"
        /\ now' = now
        /\ edge_last'.drag = edge_last.drag
        /\ edge_last'.edge = edge_last.edge
        /\ TransitionTable(edge_motion_fsm.current_state, edge_last.drag,
                           edge_last.edge) = edge_motion_fsm.current_state)
           => /\ edge_motion_fsm'.current_state = edge_motion_fsm.current_state
              /\ edge_motion_fsm'.current_edge = edge_motion_fsm.current_edge
              /\ edge_motion_fsm'.motion_dx = edge_motion_fsm.motion_dx
              /\ edge_motion_fsm'.motion_dy = edge_motion_fsm.motion_dy
              /\ ~edge_last'.motion.emitted
              /\ edge_timer' = edge_timer
              /\ edge_queued' = edge_queued]_vars

\* a frame call has been repeated in edge_active with the tick pending
C20_Witness ==
    /\ edge_last.op = "frame"
    /\ edge_last.repeat
    /\ edge_last.prev = STATE_DRAG_EDGE_CONTINUOUS
    /\ edge_motion_fsm.current_state = STATE_DRAG_EDGE_CONTINUOUS
    /\ edge_last.edge = {EDGE_LEFT, EDGE_TOP}
    /\ edge_timer > now

\* ---------------------------------------------------------------------------
\* The edge classifier over device geometries

\* the lowest coordinate of a device whose axes do not start at 0
DeviceMinimum == 3

\* devices: the coordinate range of each axis, one unit per millimetre
Devices ==
    [min_x : {0, DeviceMinimum}, max_x : {AbsMaximum, AbsMaximum + DeviceMinimum},
     min_y : {0, DeviceMinimum}, max_y : {AbsMaximum, AbsMaximum + DeviceMinimum}]

\* the touch positions a device can report
DevicePoints(device) ==
    {[x |-> x, y |-> y] : x \in device.min_x..device.max_x,
                          y \in device.min_y..device.max_y}

\* evdev_device_mm_to_units: millimetres to device units at one unit per
\* millimetre; whether the axis minimum is added is the conversion's choice
evdev_device_mm_to_units(device, mm, offset) ==
    [x |-> mm + (IF offset THEN device.min_x ELSE 0),
     y |-> mm + (IF offset THEN device.min_y ELSE 0)]

\* detect_touch_edge on a device with the converted threshold
detect_touch_edge_on(device, threshold, t) ==
    (IF t.x < threshold.x THEN {EDGE_LEFT} ELSE {})
    \cup (IF t.x > device.max_x - threshold.x THEN {EDGE_RIGHT} ELSE {})
    \cup (IF t.y < threshold.y THEN {EDGE_TOP} ELSE {})
    \cup (IF t.y > device.max_y - threshold.y THEN {EDGE_BOTTOM} ELSE {})

\* the classifier and the direction vector applied to one touch of one device
DetectEdge ==
    /\ edge_last.op = "init"
    /\ \E device \in Devices, offset \in BOOLEAN :
           \E t \in DevicePoints(device) :
               \E edge \in {detect_touch_edge_on(device,
                                evdev_device_mm_to_units(device,
                                    EDGE_MOTION_CONFIG_EDGE_THRESHOLD_MM, offset),
                                t)} :
                   edge_last' = [op |-> "detect", device |-> device,
                                 offset |-> offset, touch |-> t, edge |-> edge,
                                 vector |-> calculate_motion_vector(edge)]
    /\ UNCHANGED <<now, edge_motion_fsm, edge_timer, edge_queued, drag_log_file,
                   edge_episode, edge_ticks, edge_travel, swipe_vars, touch_vars>>

NextDetect == DetectEdge

\* the edge classifier applied to touches of devices
SpecDetect == Init /\ [][NextDetect]_vars

\* the margins of the device a touch lies in, by distance to the axis ends
NearMinX(device, t) == t.x - device.min_x < EDGE_MOTION_CONFIG_EDGE_THRESHOLD_MM
NearMaxX(device, t) == device.max_x - t.x < EDGE_MOTION_CONFIG_EDGE_THRESHOLD_MM
NearMinY(device, t) == t.y - device.min_y < EDGE_MOTION_CONFIG_EDGE_THRESHOLD_MM
NearMaxY(device, t) == device.max_y - t.y < EDGE_MOTION_CONFIG_EDGE_THRESHOLD_MM

\* C21: a touch inside the edge margin on exactly one axis gets exactly one
\* edge flag, and the direction vector is 0 on the other axis.
C21_SingleAxisEdge ==
    edge_last.op = "detect" =>
        LET d == edge_last.device
            t == edge_last.touch
            on_x == NearMinX(d, t) \/ NearMaxX(d, t)
            on_y == NearMinY(d, t) \/ NearMaxY(d, t)
        IN  /\ (on_x /\ ~on_y) =>
                   /\ Cardinality(edge_last.edge) = 1
                   /\ edge_last.vector.dy = 0
            /\ (on_y /\ ~on_x) =>
                   /\ Cardinality(edge_last.edge) = 1
                   /\ edge_last.vector.dx = 0

\* C29: on every device range a touch is flagged left/top exactly when it is
\* less than the threshold away from the axis minimum, and right/bottom
\* exactly when it is less than the threshold away from the axis maximum.
C29_EdgesAgainstRange ==
    edge_last.op = "detect" =>
        LET d == edge_last.device
            t == edge_last.touch
        IN  /\ (EDGE_LEFT \in edge_last.edge) <=> NearMinX(d, t)
            /\ (EDGE_RIGHT \in edge_last.edge) <=> NearMaxX(d, t)
            /\ (EDGE_TOP \in edge_last.edge) <=> NearMinY(d, t)
            /\ (EDGE_BOTTOM \in edge_last.edge) <=> NearMaxY(d, t)

\* the same two properties on the devices whose axes start at 0
C21_SingleAxisEdgeFromZero ==
    (edge_last.op = "detect" /\ edge_last.device.min_x = 0
        /\ edge_last.device.min_y = 0) => C21_SingleAxisEdge

C29_EdgesAgainstRangeFromZero ==
    (edge_last.op = "detect" /\ edge_last.device.min_x = 0
        /\ edge_last.device.min_y = 0) => C29_EdgesAgainstRange

\* the swipe half of the teardown: tp_swipe_fsm_cleanup cancels the timer
\* before destroying it and leaves the FSM idle with no timer
SwipeTeardown ==
    swipe_last.op = "cleanup" =>
        /\ swipe_last.before.timer # 0 => swipe_last.cancelled
        /\ swipe_fsm.state = SWIPE_STATE_IDLE
        /\ swipe_timer = 0

\* C22: when the cleanup of either FSM has run, an armed timer was cancelled
\* before it was destroyed, the FSM is idle with no timer and no expiry
\* pending, and a callback delivered afterwards emits nothing.
C22_Teardown ==
    /\ edge_last.op = "cleanup" =>
           /\ edge_last.armed => edge_last.cancelled
           /\ edge_motion_fsm.current_state = STATE_IDLE
           /\ edge_timer = 0
           /\ ~edge_queued
    /\ (edge_last.op = "stale" /\ edge_last.prev = STATE_IDLE) =>
           ~edge_last.motion.emitted
    /\ SwipeTeardown

\* the part of the teardown that the edge-motion cleanup does provide
EdgeTeardownIdle ==
    edge_last.op = "cleanup" =>
        /\ edge_motion_fsm.current_state = STATE_IDLE
        /\ edge_timer = 0

\* the states of the edge-motion FSM in which no tick is expected
EdgeStatesWithoutTick ==
    {STATE_IDLE, STATE_DRAG_ACTIVE_CENTERED, STATE_DRAG_EDGE_EXIT}

\* the swipe callback applied to the swipe FSM as it is: nothing changes
SwipeIdleCallbackNoOp ==
    swipe_fsm.state = SWIPE_STATE_IDLE =>
        LET r == swipe_timer_handler(swipe_fsm, now)
        IN  /\ r.fsm = swipe_fsm
            /\ r.keys = <<>>
            /\ r.timer = 0
            /\ swipe_timer = 0

\* C23: a timer callback in a state that expects no tick is a no-op: the
\* edge-motion callback in idle, dragging_centered or edge_exit and the swipe
\* callback in idle change no field, emit nothing and do not re-arm the timer.
C23_UnexpectedTickNoOp ==
    /\ edge_motion_fsm.current_state \in EdgeStatesWithoutTick =>
           tp_edge_motion_handle_timeout(edge_motion_fsm, edge_timer, now)
               = [fsm |-> edge_motion_fsm, timer |-> edge_timer,
                  motion |-> NoMotion]
    /\ (edge_last.op = "stale" /\ edge_last.prev \in EdgeStatesWithoutTick) =>
           /\ ~edge_last.motion.emitted
           /\ edge_motion_fsm.current_state = edge_last.prev
           /\ edge_timer = 0
    /\ SwipeIdleCallbackNoOp

\* a cancelled expiry has been delivered in edge_exit
C23_Witness ==
    /\ edge_last.op = "stale"
    /\ edge_last.prev = STATE_DRAG_EDGE_EXIT
    /\ edge_motion_fsm.current_state = STATE_DRAG_EDGE_EXIT

\* a cancelled expiry has been delivered in idle and in dragging_centered
C23_StaleInIdle ==
    edge_last.op = "stale" /\ edge_last.prev = STATE_IDLE

C23_StaleInCentered ==
    edge_last.op = "stale" /\ edge_last.prev = STATE_DRAG_ACTIVE_CENTERED

\* ---------------------------------------------------------------------------
\* The edge-motion FSM when the timer subsystem rejects every arming

\* the expiry of the timer after a rejected libinput_timer_set: none
libinput_timer_set_rejected == 0

\* a frame whose attempt to arm the timer is rejected
EdgeFrameRejected ==
    \E inp \in FrameInputs :
        \E r \in {handle_drag_state(edge_motion_fsm, edge_timer, inp[1],
                                    inp[2], now)} :
            /\ edge_motion_fsm' = r.fsm
            /\ edge_timer' = libinput_timer_set_rejected
            /\ edge_queued' = (edge_queued \/ r.queued)
            /\ edge_last' = [op |-> "frame", motion |-> r.motion,
                             prev |-> edge_motion_fsm.current_state,
                             drag |-> inp[1], edge |-> inp[2],
                             ret |-> DragStateResult(r.fsm),
                             wanted |-> r.timer]
            /\ edge_episode' =
                   IF r.fsm.current_state = STATE_DRAG_EDGE_ENTRY
                      /\ edge_motion_fsm.current_state # STATE_DRAG_EDGE_ENTRY
                   THEN now ELSE edge_episode
            /\ UNCHANGED <<now, edge_ticks, edge_travel, drag_log_file, swipe_vars, touch_vars>>

\* the timer is never armed, so its callback is never due
NextRejected ==
    \/ Advance
    \/ EdgeFrameRejected
    \/ EdgeCleanup

\* the timer-driven edge-motion FSM with a timer that cannot be armed
SpecRejected == Init /\ [][NextRejected]_vars

\* C24 as stated: with every arming rejected the FSM never reaches edge_active
\* (continuous) and no pointer motion is injected.
C24_NeverActiveNoMotion ==
    /\ edge_motion_fsm.current_state # STATE_DRAG_EDGE_CONTINUOUS
    /\ ~edge_last.motion.emitted

\* C24: with every arming rejected no pointer motion is ever injected and no
\* tick is counted, whatever the frames are; the state is driven by the frames
\* alone and does reach edge_continuous.
C24_NoMotionWithoutTimer ==
    /\ ~edge_last.motion.emitted
    /\ edge_motion_fsm.continuous_motion_count = 0
    /\ edge_timer = 0

\* the FSM is in edge_continuous although the arming of the timer was rejected
C24_Witness ==
    /\ edge_last.op = "frame"
    /\ edge_last.prev = STATE_DRAG_EDGE_ENTRY
    /\ edge_motion_fsm.current_state = STATE_DRAG_EDGE_CONTINUOUS
    /\ edge_timer = 0

\* the frame that enters edge_entry did ask for the timer
C24_ArmingRejected ==
    /\ edge_last.op = "frame"
    /\ edge_last.wanted # 0
    /\ edge_motion_fsm.current_state = STATE_DRAG_EDGE_ENTRY
    /\ edge_timer = 0

\* the directions on the axis of an active state
AxisDirections ==
    [s \in SwipeActive |->
        IF s = SWIPE_STATE_VERTICAL_ACTIVE
        THEN {SWIPE_DIR_UP, SWIPE_DIR_DOWN}
        ELSE {SWIPE_DIR_LEFT, SWIPE_DIR_RIGHT}]

\* C25: in an active state a frame on the other axis, and a frame classified
\* none, leave state, locked_direction and accumulated_delta as they were, add
\* nothing to the accumulator, run no key-emission check and emit no key.
C25_OffAxisFrameIgnored ==
    (/\ swipe_last.op = "frame"
     /\ swipe_last.before.state \in SwipeActive
     /\ swipe_last.dir \notin AxisDirections[swipe_last.before.state])
        => /\ swipe_fsm.state = swipe_last.before.state
           /\ swipe_fsm.locked_direction = swipe_last.before.locked_direction
           /\ swipe_fsm.accumulated_delta = swipe_last.before.accumulated_delta
           /\ ~swipe_last.checked
           /\ swipe_last.keys = <<>>

\* a horizontal frame has arrived in vertical_active with an accumulator that
\* is over the threshold
C25_Witness ==
    /\ swipe_last.op = "frame"
    /\ swipe_last.before.state = SWIPE_STATE_VERTICAL_ACTIVE
    /\ swipe_last.dir \in {SWIPE_DIR_LEFT, SWIPE_DIR_RIGHT}
    /\ swipe_last.before.accumulated_delta >= SWIPE_VOLUME_THRESHOLD
    /\ swipe_fsm.accumulated_delta = swipe_last.before.accumulated_delta

\* a frame classified none has arrived in an active state
C25_NoneFrame ==
    /\ swipe_last.op = "frame"
    /\ swipe_last.before.state \in SwipeActive
    /\ swipe_last.dir = SWIPE_DIR_NONE
    /\ swipe_last.before.accumulated_delta # 0

\* C26: a timer tick in vertical_active or horizontal_active within the
\* inactivity window re-runs the key-emission check: with |accumulated_delta|
\* at or over the threshold it emits one key pair and takes the threshold off
\* the accumulator, without any new frame; the timer is re-armed 80 ms later
\* and state and locked_direction stay.
C26_TickRerunsCheck ==
    (/\ swipe_last.op = "timer"
     /\ swipe_last.before.state \in SwipeActive
     /\ swipe_last.time - swipe_last.before.last_event_time
            <= SWIPE_INACTIVITY_TIMEOUT_MS * 1000)
        => LET d == swipe_last.before.locked_direction
               a == swipe_last.before.accumulated_delta
           IN  /\ swipe_last.checked
               /\ swipe_fsm.state = swipe_last.before.state
               /\ swipe_fsm.locked_direction = d
               /\ swipe_timer = swipe_last.time + 80 * 1000
               /\ IF Abs(a) >= ThresholdOfDirection[d]
                  THEN /\ swipe_last.keys = KeyPair(KeyOfDirection[d])
                       /\ Abs(swipe_fsm.accumulated_delta)
                              = Abs(a) - ThresholdOfDirection[d]
                  ELSE /\ swipe_last.keys = <<>>
                       /\ swipe_fsm.accumulated_delta = a

\* a tick has emitted a key pair from what the last frame left in the
\* accumulator
C26_Witness ==
    /\ swipe_last.op = "timer"
    /\ swipe_last.before.state = SWIPE_STATE_VERTICAL_ACTIVE
    /\ swipe_last.before.accumulated_delta >= SWIPE_VOLUME_THRESHOLD
    /\ swipe_last.keys = KeyPair(KeyOfDirection[swipe_last.before.locked_direction])
    /\ swipe_fsm.accumulated_delta
           = swipe_last.before.accumulated_delta - SWIPE_VOLUME_THRESHOLD
    /\ swipe_fsm.state = SWIPE_STATE_VERTICAL_ACTIVE

\* ---------------------------------------------------------------------------
\* The pure functions of the swipe gesture over their inputs

\* the largest coordinate of a classified delta, in tenths
MaxDelta == 25

\* the largest magnitude given to the speed multiplier, in tenths
MaxMagnitude == 170

\* get_primary_direction applied to one delta
ClassifyDelta ==
    /\ swipe_last.op = "init"
    /\ \E x \in -MaxDelta..MaxDelta, y \in -MaxDelta..MaxDelta :
           swipe_last' = [op |-> "classify", delta |-> <<x, y>>,
                          dir |-> get_primary_direction(<<x, y>>)]
    /\ UNCHANGED <<now, edge_vars, swipe_fsm, swipe_timer, swipe_hist, touch_vars>>

\* calculate_speed_multiplier applied to two magnitudes
SpeedOfMagnitudes ==
    /\ swipe_last.op = "init"
    /\ \E m1 \in 0..MaxMagnitude, m2 \in 0..MaxMagnitude :
           swipe_last' = [op |-> "speed", low |-> m1, high |-> m2,
                          of_low |-> calculate_speed_multiplier(m1),
                          of_high |-> calculate_speed_multiplier(m2)]
    /\ UNCHANGED <<now, edge_vars, swipe_fsm, swipe_timer, swipe_hist, touch_vars>>

NextSwipePure ==
    \/ ClassifyDelta
    \/ SpeedOfMagnitudes

\* the classifier and the speed multiplier of the swipe gesture on their inputs
SpecSwipePure == Init /\ [][NextSwipePure]_vars

\* C27: get_primary_direction returns none when |x| and |y| are both below
\* 0.15; otherwise up/down by the sign of y exactly when |y| > 1.5 |x|,
\* left/right by the sign of x exactly when |x| > 1.5 |y|, and none for every
\* other delta.
C27_DirectionClassifier ==
    swipe_last.op = "classify" =>
        LET x == swipe_last.delta[1]
            y == swipe_last.delta[2]
            noise == 20 * Abs(x) < 30 /\ 20 * Abs(y) < 30
            vertical == ~noise /\ 10 * Abs(y) > 15 * Abs(x)
            horizontal == ~noise /\ 10 * Abs(x) > 15 * Abs(y)
        IN  /\ ~(vertical /\ horizontal)
            /\ (swipe_last.dir = SWIPE_DIR_UP) <=> (vertical /\ y < 0)
            /\ (swipe_last.dir = SWIPE_DIR_DOWN) <=> (vertical /\ y > 0)
            /\ (swipe_last.dir = SWIPE_DIR_LEFT) <=> (horizontal /\ x < 0)
            /\ (swipe_last.dir = SWIPE_DIR_RIGHT) <=> (horizontal /\ x > 0)
            /\ (swipe_last.dir = SWIPE_DIR_NONE) <=> (~vertical /\ ~horizontal)

\* a diagonal delta over the noise threshold has been classified none
C27_Witness ==
    /\ swipe_last.op = "classify"
    /\ swipe_last.delta = <<10, -12>>
    /\ swipe_last.dir = SWIPE_DIR_NONE

\* C28: calculate_speed_multiplier is 2.0 up to magnitude 2.0, 0.5 from
\* magnitude 15.0 on and the linear interpolation in between; it stays within
\* [0.5, 2.0] and never increases with the magnitude.
C28_SpeedMultiplier ==
    swipe_last.op = "speed" =>
        LET m == swipe_last.low
            r == swipe_last.of_low
        IN  /\ m <= 20 => r = 2 * 260
            /\ m >= 150 => r = 260 \div 2
            /\ (m > 20 /\ m < 150) =>
                   130 * r = 130 * (2 * 260) - (m - 20) * (2 * 260 - 260 \div 2)
            /\ r >= 260 \div 2
            /\ r <= 2 * 260
            /\ swipe_last.low <= swipe_last.high
                   => swipe_last.of_low >= swipe_last.of_high

\* the multiplier has been taken inside the interpolation and beyond it
C28_Witness ==
    /\ swipe_last.op = "speed"
    /\ swipe_last.low = 85
    /\ swipe_last.of_low = 325
    /\ swipe_last.high = 160
    /\ swipe_last.of_high = 130

\* C30: the value returned by the frame call is 1 exactly when timer-driven
\* motion is running after the call (the timer is armed) and 0 otherwise, in
\* particular 0 in idle and dragging_centered.
C30_ReturnReportsMotion ==
    edge_last.op = "frame" =>
        /\ (edge_last.ret = 1) <=> (edge_timer # 0)
        /\ edge_last.ret \in {0, 1}
        /\ edge_motion_fsm.current_state
               \in {STATE_IDLE, STATE_DRAG_ACTIVE_CENTERED} => edge_last.ret = 0

\* what the return value does report: the state is neither idle nor
\* dragging_centered
ReturnReportsState ==
    edge_last.op = "frame" =>
        (edge_last.ret = 1) <=>
            (edge_motion_fsm.current_state
                 \in {STATE_DRAG_EDGE_ENTRY, STATE_DRAG_EDGE_CONTINUOUS,
                      STATE_DRAG_EDGE_EXIT})

\* C31: a tick whose displacement (elapsed time x base speed) is below the
\* epsilon of 0.001 mm emits no pointer-motion event.
C31_BelowEpsilonDropped ==
    /\ (/\ edge_motion_fsm.current_state \in EdgeStates
        /\ 40 * (now - edge_motion_fsm.last_motion_time) < 1000)
           => tp_edge_motion_handle_timeout(edge_motion_fsm, edge_timer,
                                            now).motion = NoMotion
    /\ edge_last.motion.emitted => edge_last.motion.dist >= 1000

\* an expiry has been delivered 20 us after the last motion time and has
\* emitted nothing
C31_Witness ==
    /\ edge_last.op = "stale"
    /\ edge_last.prev \in EdgeStates
    /\ edge_motion_fsm.last_motion_time # 0
    /\ now - edge_motion_fsm.last_motion_time = SmallStepUs
    /\ ~edge_last.motion.emitted

\* C32: state and locked_direction agree in every reachable state:
\* locked_direction is none in idle and detecting, up or down in
\* vertical_active, left or right in horizontal_active.
C32_StateMatchesLockedDirection ==
    /\ swipe_fsm.state \in {SWIPE_STATE_IDLE, SWIPE_STATE_DETECTING}
           => swipe_fsm.locked_direction = SWIPE_DIR_NONE
    /\ swipe_fsm.state = SWIPE_STATE_VERTICAL_ACTIVE
           => swipe_fsm.locked_direction \in {SWIPE_DIR_UP, SWIPE_DIR_DOWN}
    /\ swipe_fsm.state = SWIPE_STATE_HORIZONTAL_ACTIVE
           => swipe_fsm.locked_direction \in {SWIPE_DIR_LEFT, SWIPE_DIR_RIGHT}

\* the inactivity reset has taken a locked gesture back to idle
C32_Witness ==
    /\ swipe_last.op = "timer"
    /\ swipe_last.before.state = SWIPE_STATE_VERTICAL_ACTIVE
    /\ swipe_last.before.locked_direction = SWIPE_DIR_UP
    /\ swipe_fsm.state = SWIPE_STATE_IDLE
    /\ swipe_fsm.locked_direction = SWIPE_DIR_NONE

\* the locked direction has flipped inside horizontal_active
C32_FlippedInAxis ==
    /\ swipe_last.op = "frame"
    /\ swipe_last.before.state = SWIPE_STATE_HORIZONTAL_ACTIVE
    /\ swipe_last.before.locked_direction = SWIPE_DIR_LEFT
    /\ swipe_fsm.state = SWIPE_STATE_HORIZONTAL_ACTIVE
    /\ swipe_fsm.locked_direction = SWIPE_DIR_RIGHT

\* C33: the cooldown state is never reached from the initial state by calls of
\* tp_deal_with_it, timer ticks and cleanups; a gesture that ends leaves its
\* active state straight for idle, through the inactivity reset (or through
\* the cleanup).
C33_CooldownUnreachable ==
    /\ swipe_fsm.state # SWIPE_STATE_COOLDOWN
    /\ swipe_last.before.state # SWIPE_STATE_COOLDOWN
    /\ (/\ swipe_last.before.state \in SwipeActive
        /\ swipe_fsm.state \notin SwipeActive)
           => /\ swipe_fsm.state = SWIPE_STATE_IDLE
              /\ \/ swipe_last.op = "cleanup"
                 \/ /\ swipe_last.op = "timer"
                    /\ swipe_last.time - swipe_last.before.last_event_time
                           > SWIPE_INACTIVITY_TIMEOUT_MS * 1000

\* a gesture that sent a key has ended by the inactivity reset
C33_Witness ==
    /\ swipe_last.op = "timer"
    /\ swipe_last.before.state \in SwipeActive
    /\ swipe_fsm.state = SWIPE_STATE_IDLE
    /\ swipe_fsm.keys_sent > 0

\* C36: in idle, timer_active is false and no expiry of the swipe timer is
\* pending; timer_active is true exactly when the state is not idle.
C36_TimerActiveIffNotIdle ==
    /\ swipe_fsm.state = SWIPE_STATE_IDLE
           => (~swipe_fsm.timer_active /\ swipe_timer = 0)
    /\ swipe_fsm.timer_active <=> swipe_fsm.state # SWIPE_STATE_IDLE

\* idle has been entered from detecting by the inactivity reset
C36_Witness ==
    /\ swipe_last.op = "timer"
    /\ swipe_last.before.state = SWIPE_STATE_DETECTING
    /\ swipe_last.before.timer # 0
    /\ swipe_fsm.state = SWIPE_STATE_IDLE
    /\ ~swipe_fsm.timer_active
    /\ swipe_timer = 0

\* the delta of a frame along a direction: positive when the frame moves
\* that way
OnAxisDelta(dir, delta) ==
    CASE dir = SWIPE_DIR_UP -> -delta[2]
      [] dir = SWIPE_DIR_DOWN -> delta[2]
      [] dir = SWIPE_DIR_RIGHT -> delta[1]
      [] dir = SWIPE_DIR_LEFT -> -delta[1]
      [] OTHER -> 0

\* C34: accumulated_delta is never negative; every accumulating frame adds a
\* strictly positive amount, the on-axis delta along the locked direction
\* the frame has just set times the speed multiplier; a check subtracts the
\* threshold only when the accumulator has reached it.
C34_AccumulatorNonNegative ==
    /\ swipe_fsm.accumulated_delta >= 0
    /\ (swipe_last.op = "frame" /\ swipe_last.checked) =>
         LET d == swipe_fsm.locked_direction
             added == OnAxisDelta(d, swipe_last.delta)
                          * calculate_speed_multiplier(
                                DeltaMagnitude(swipe_last.delta))
             base == IF swipe_last.before.locked_direction # d THEN 0
                     ELSE swipe_last.before.accumulated_delta
         IN  /\ added > 0
             /\ IF base + added >= SwipeThreshold(d)
                THEN /\ swipe_last.keys # <<>>
                     /\ swipe_fsm.accumulated_delta
                            = base + added - SwipeThreshold(d)
                ELSE /\ swipe_last.keys = <<>>
                     /\ swipe_fsm.accumulated_delta = base + added
    /\ (swipe_last.op = "timer" /\ swipe_last.checked) =>
         LET a == swipe_last.before.accumulated_delta
             threshold == SwipeThreshold(swipe_fsm.locked_direction)
         IN  IF a >= threshold
             THEN /\ swipe_last.keys # <<>>
                  /\ swipe_fsm.accumulated_delta = a - threshold
             ELSE /\ swipe_last.keys = <<>>
                  /\ swipe_fsm.accumulated_delta = a
    /\ ~swipe_last.checked => swipe_last.keys = <<>>

\* a frame downwards has flipped a gesture locked upwards, and its
\* contribution is what the emptied accumulator holds
C34_Witness ==
    /\ swipe_last.op = "frame"
    /\ swipe_last.checked
    /\ swipe_last.before.locked_direction = SWIPE_DIR_UP
    /\ swipe_last.before.accumulated_delta > 0
    /\ swipe_fsm.locked_direction = SWIPE_DIR_DOWN
    /\ swipe_fsm.accumulated_delta > 0

\* a tick has taken one threshold off an accumulator that held more than one
C34_TickSubtracts ==
    /\ swipe_last.op = "timer"
    /\ swipe_last.keys # <<>>
    /\ swipe_last.before.accumulated_delta
           > SwipeThreshold(swipe_fsm.locked_direction)
    /\ swipe_fsm.accumulated_delta > 0

\* C35: between a lock-in or a change of direction and the next change of
\* direction or reset, the key pairs emitted times the threshold plus
\* accumulated_delta equal the sum of the contributions of the frames.
C35_Conservation ==
    swipe_fsm.state \in SwipeActive
        => swipe_hist.pairs * SwipeThreshold(swipe_fsm.locked_direction)
               + swipe_fsm.accumulated_delta
           = swipe_hist.sum

\* two pairs have been emitted and a rest is held
C35_Witness ==
    /\ swipe_fsm.state = SWIPE_STATE_VERTICAL_ACTIVE
    /\ swipe_hist.pairs = 2
    /\ swipe_fsm.accumulated_delta > 0
    /\ swipe_hist.sum > 2 * SWIPE_VOLUME_THRESHOLD

\* a tick has emitted the second pair of a frame that contributed two
\* thresholds
C35_TickPair ==
    /\ swipe_fsm.state = SWIPE_STATE_VERTICAL_ACTIVE
    /\ swipe_last.op = "timer"
    /\ swipe_last.keys # <<>>
    /\ swipe_hist.pairs = 2
    /\ swipe_hist.sum = 2 * SWIPE_VOLUME_THRESHOLD

\* the states of the swipe FSM
SwipeStates ==
    {SWIPE_STATE_IDLE, SWIPE_STATE_DETECTING, SWIPE_STATE_VERTICAL_ACTIVE,
     SWIPE_STATE_HORIZONTAL_ACTIVE, SWIPE_STATE_COOLDOWN}

\* C37: every four-finger frame refreshes last_event_time, whatever its
\* direction and whatever the state (a frame without direction, a
\* cross-axis frame, a frame in cooldown); the inactivity reset fires only
\* when the last four-finger frame is more than 200 ms old, so it never
\* fires while such frames keep arriving at most 200 ms apart, and frames
\* without direction keep the FSM in detecting or in its active state.
C37_EveryFrameRefreshes ==
    /\ swipe_last.op = "frame" =>
           swipe_fsm.last_event_time = swipe_last.time
    /\ \A delta \in SwipeDeltas, s \in SwipeStates :
           tp_deal_with_it([swipe_fsm EXCEPT !.state = s], swipe_timer, now,
                           4, delta).fsm.last_event_time = now
    /\ (/\ swipe_last.op = "timer"
        /\ swipe_last.before.state # SWIPE_STATE_IDLE
        /\ swipe_fsm.state = SWIPE_STATE_IDLE)
           => swipe_last.time - swipe_last.before.last_event_time
                  > SWIPE_INACTIVITY_TIMEOUT_MS * 1000
    /\ (/\ swipe_last.op = "frame"
        /\ swipe_last.dir = SWIPE_DIR_NONE
        /\ swipe_last.before.state # SWIPE_STATE_IDLE)
           => /\ swipe_fsm.state = swipe_last.before.state
              /\ swipe_fsm.timer_active
              /\ swipe_timer # 0

\* a tick finds the FSM in detecting more than 200 ms after it entered,
\* kept there by frames without direction, and leaves it there
C37_Witness ==
    /\ swipe_last.op = "timer"
    /\ swipe_last.before.state = SWIPE_STATE_DETECTING
    /\ swipe_fsm.state = SWIPE_STATE_DETECTING
    /\ swipe_fsm.consecutive_count = 1
    /\ swipe_last.time - swipe_fsm.state_enter_time
           > SWIPE_INACTIVITY_TIMEOUT_MS * 1000

\* history: the distance injected since edge_entry was entered, and the time
\* of the last motion event (of the entry while there is none)
TravelAfter(motion) ==
    IF motion.emitted
    THEN [sum |-> edge_travel.sum + motion.dist, last |-> motion.time]
    ELSE edge_travel

\* a frame, with the distance restarted when it enters edge_entry
EdgeFrameTravel ==
    /\ EdgeFrameStep
    /\ edge_travel' =
           IF /\ edge_motion_fsm'.current_state = STATE_DRAG_EDGE_ENTRY
              /\ edge_motion_fsm.current_state # STATE_DRAG_EDGE_ENTRY
           THEN [sum |-> 0, last |-> now]
           ELSE TravelAfter(edge_last'.motion)

\* the timer callback, with the distance it injects added up
EdgeTimeoutTravel ==
    /\ EdgeTimeoutStep
    /\ edge_travel' = TravelAfter(edge_last'.motion)
    /\ UNCHANGED edge_ticks

\* a queued expiry is delivered, with the distance it injects added up
EdgeStaleTravel ==
    /\ EdgeStaleStep
    /\ edge_travel' = TravelAfter(edge_last'.motion)

NextTravel ==
    \/ Advance
    \/ EdgeFrameTravel
    \/ EdgeTimeoutTravel
    \/ EdgeStaleTravel
    \/ EdgeCleanup

\* the timer-driven edge-motion FSM with the injected distance added up
SpecTravel == Init /\ [][NextTravel]_vars

\* a tick moves last_motion_time only when it emits a motion
TickAdvancesOnlyOnMotion ==
    LET r == tp_edge_motion_handle_timeout(edge_motion_fsm, edge_timer, now)
    IN  r.fsm.last_motion_time # edge_motion_fsm.last_motion_time
            => r.motion.emitted

\* the distances of an episode add up to what the base speed covers up to
\* the last motion event
TravelMatchesElapsed ==
    edge_motion_fsm.current_state \in EdgeStates
        => /\ edge_travel.sum
                  = EDGE_MOTION_CONFIG_SPEED_MM_S
                        * (edge_travel.last - edge_episode)
           /\ edge_travel.last = edge_motion_fsm.last_motion_time

\* C38: last_motion_time advances only when a motion is emitted: a dropped
\* tick leaves it unchanged; the distances of the motions of one edge
\* episode add up to the base speed times the time from the entry into
\* edge_entry to the last tick that emitted.
C38_DistanceConserved ==
    /\ TickAdvancesOnlyOnMotion
    /\ TravelMatchesElapsed

\* the same for the episodes that edge_entry enters at a time other than 0
C38_ConservedFromNonZero ==
    (edge_motion_fsm.current_state \in EdgeStates /\ edge_episode # 0)
        => C38_DistanceConserved

\* an episode entered at a time other than 0 has injected two motions
C38_TwoMotions ==
    /\ edge_motion_fsm.current_state \in EdgeStates
    /\ edge_episode # 0
    /\ edge_last.motion.emitted
    /\ edge_travel.sum > EDGE_MOTION_CONFIG_SPEED_MM_S
                             * EDGE_MOTION_CONFIG_MIN_INTERVAL_US

NextTouch ==
    \/ AdvanceTouch
    \/ TouchFrame
    \/ TouchPostEvents
    \/ TouchStopEvents
    \/ TouchRemove

\* the per-touch variant as written
SpecTouch == Init /\ [][NextTouch]_vars

NextTouchDragging ==
    \/ AdvanceTouch
    \/ TouchFrameDragging
    \/ TouchTimeoutStart
    \/ TouchTimeoutTick
    \/ TouchPostEvents
    \/ TouchStopEvents
    \/ TouchRemove

\* the per-touch variant with the tap-and-drag predicate as an input
SpecTouchDragging == Init /\ [][NextTouchDragging]_vars

\* C39: in the per-touch variant with the tap-and-drag predicate as an
\* input, after any sequence of touch events and timer expiries and for
\* every touch: the start timer is armed exactly in EDGE_NEW, the tick timer
\* exactly in EDGE_ACTIVE, never both; EDGE_ACTIVE is entered only by the
\* expiry of the start timer in EDGE_NEW; the stored edges are empty exactly
\* in NONE and DRAGGING.
C39_TimersFollowState ==
    pt_last.op # "remove" =>
        \A i \in TouchSlots :
            LET t == pt_touches[i]
            IN  /\ t.start_timer # 0
                       <=> t.state = EDGE_MOTION_TOUCH_STATE_EDGE_NEW
                /\ t.tick_timer # 0
                       <=> t.state = EDGE_MOTION_TOUCH_STATE_EDGE_ACTIVE
                /\ ~(t.start_timer # 0 /\ t.tick_timer # 0)
                /\ (/\ t.state = EDGE_MOTION_TOUCH_STATE_EDGE_ACTIVE
                    /\ pt_last.before[i] # EDGE_MOTION_TOUCH_STATE_EDGE_ACTIVE)
                       => /\ pt_last.op = "timeout_start"
                          /\ pt_last.touch = i
                          /\ pt_last.before[i] = EDGE_MOTION_TOUCH_STATE_EDGE_NEW
                /\ t.edges = EDGE_NONE
                       <=> t.state \in {EDGE_MOTION_TOUCH_STATE_NONE,
                                        EDGE_MOTION_TOUCH_STATE_DRAGGING}

\* the start timer of one touch has just taken it to EDGE_ACTIVE while
\* the other touch waits in EDGE_NEW
C39_Witness ==
    /\ pt_last.op = "timeout_start"
    /\ pt_last.touch = 1
    /\ pt_touches[1].state = EDGE_MOTION_TOUCH_STATE_EDGE_ACTIVE
    /\ pt_touches[1].tick_timer = now + EDGE_MOTION_INTERVAL
    /\ pt_touches[2].state = EDGE_MOTION_TOUCH_STATE_EDGE_NEW
    /\ pt_touches[2].start_timer > now

\* a tick has re-armed the tick timer of a touch in EDGE_ACTIVE
C39_TickRearmed ==
    /\ pt_last.op = "timeout_tick"
    /\ pt_touches[pt_last.touch].state = EDGE_MOTION_TOUCH_STATE_EDGE_ACTIVE
    /\ pt_touches[pt_last.touch].tick_timer = now + EDGE_MOTION_INTERVAL

\* a motion has been computed for a touch at the right edge
C39_MotionComputed ==
    /\ pt_last.op = "post"
    /\ [touch |-> 1, motion |-> [x |-> SpeedPerFrame, y |-> 0]]
           \in pt_last.motions

\* C40: in the per-touch variant as written, tp_touch_is_tap_dragging being
\* false, no sequence of touch begin / update / end events and timer
\* expiries moves a touch out of EDGE_MOTION_TOUCH_STATE_NONE, no timer is
\* ever armed, and tp_edge_motion_post_events never computes a motion.
C40_NothingLeavesNone ==
    /\ \A i \in TouchSlots :
           /\ pt_touches[i].state = EDGE_MOTION_TOUCH_STATE_NONE
           /\ pt_touches[i].start_timer = 0
           /\ pt_touches[i].tick_timer = 0
           /\ \A event \in {EDGE_MOTION_EVENT_TIMEOUT_START,
                            EDGE_MOTION_EVENT_TIMEOUT_TICK} :
                  tp_edge_motion_handle_event(pt_touches[i], <<0, 0>>, event,
                                              tp_touch_is_tap_dragging(i), now)
                      = pt_touches[i]
    /\ TouchesPosting = {}
    /\ pt_last.motions = {}

\* a frame has begun one touch and released the other
C40_Witness ==
    /\ pt_last.op = "frame"
    /\ pt_last.events[1] = EDGE_MOTION_EVENT_TOUCH
    /\ pt_last.events[2] = EDGE_MOTION_EVENT_RELEASE
    /\ now > 0
    /\ pt_touches[1].state = EDGE_MOTION_TOUCH_STATE_NONE

\* tp_edge_motion_post_events has run after a frame
C40_PostedNothing ==
    /\ pt_last.op = "post"
    /\ now > 0
    /\ pt_last.motions = {}

====
